---- MODULE Spec2Model ----
(***************************************************************************)
(* Meal-plan generation pipeline of ai-nourish-hub: the web client's       *)
(* generateMealPlan handler, the generate-meal-plan edge function and the  *)
(* meal_plans / grocery_lists tables they write.                           *)
(*                                                                         *)
(* Dates are day numbers; day 0 is a Sunday, so getDay(d) = d % 7.  The    *)
(* browser's time zone is UTC except where the week computations are run   *)
(* in several zones.                                                       *)
(***************************************************************************)
EXTENDS Integers, Sequences, FiniteSets, TLC

VARIABLES
    today,            \* the day new Date() / Date.now() falls on
    prefsRow,         \* the caller's diet_preferences row
    reqs,             \* the edge function's invocations, by request id
    mealPlans,        \* table meal_plans
    groceryLists,     \* table grocery_lists
    nextGroceryId,    \* ids handed out to grocery_lists rows so far
    cpc,              \* where generateMealPlan stands in the web client
    cReq,             \* the invocation generateMealPlan awaits or awaited last
    loading,          \* MealPlanViewer state: loading
    toast,            \* title of the last toast shown
    planData,         \* MealPlanViewer state: planData
    currentMealPlan,  \* Dashboard state: currentMealPlan
    defaultTab,       \* MealPlanViewer state: defaultTab (day number)
    groceryData,      \* GroceryList: the rows the last select returned
    groceryItems,     \* GroceryList state: groceryItems (the grouped view)
    clock,            \* minutes of the day new Date() falls on
    remPrefs,         \* the caller's diet_preferences row: meal_times, reminder_tone
    notifications,    \* table notifications
    notifView,        \* MealCalendar state: notifications
    batches,          \* number of reminder batches inserted so far
    timeZone,         \* minutes the browser's local time is ahead of UTC
    weekResult,       \* what the week computations returned last
    dst,              \* the change of the browser's clocks in these weeks, if any
    createdAt,        \* column created_at of meal_plans, by row
    fullName,         \* the caller's user_profiles row: full_name
    profileComplete,  \* localStorage item 'profileComplete'
    hasProfile,       \* Dashboard state: hasProfile
    activeTab,        \* Dashboard state: activeTab
    checks,           \* the calls of checkUserProfile that have not returned
    mounted,          \* the Dashboard's effect has run
    selectedDate      \* MealCalendar state: selectedDate, an instant

vars == <<today, prefsRow, reqs, mealPlans, groceryLists, nextGroceryId,
          cpc, cReq, loading, toast, planData, currentMealPlan, defaultTab,
          groceryData, groceryItems, clock, remPrefs, notifications, notifView,
          batches, timeZone, weekResult, dst, createdAt, fullName, profileComplete,
          hasProfile, activeTab, checks, mounted, selectedDate>>

listVars == <<groceryData, groceryItems>>
calendarVars == <<clock, remPrefs, notifications, notifView, batches>>
pageVars == <<timeZone, weekResult, dst>>
dashVars == <<fullName, profileComplete, hasProfile, activeTab, checks, mounted>>

dbVars == <<mealPlans, groceryLists, nextGroceryId>>
clientVars == <<cpc, cReq, loading, toast, planData, currentMealPlan, defaultTab>>

(***************************************************************************)
(* Bounds                                                                  *)
(***************************************************************************)
\* largest total_days a stored preferences row carries in the model
MaxDays == 2
\* largest meals_per_day a stored preferences row carries in the model
MaxMeals == 5
\* number of requests the edge function receives in one behaviour
MaxRequests == 1
\* longest list of rows the grouping of the grocery view is applied to
MaxItems == 3
\* largest number of grocery_lists rows stored before the list is opened
MaxRows == 2
\* number of reminder batches created in one behaviour
MaxBatches == 1
\* most meal_plans rows stored before the current-week read
MaxPlans == 2
\* most invocations of the function in flight when generations overlap
MaxOverlap == 2
\* most calls of checkUserProfile that have not returned
MaxChecks == 2

(***************************************************************************)
(* Program constants                                                       *)
(***************************************************************************)
\* status: error.status || 500
\* diet_preferences: total_days INTEGER DEFAULT 7
DefaultDays == 7
\* diet_preferences: meals_per_day INTEGER DEFAULT 3
DefaultMeals == 3
ErrorStatus == 500
\* status of a Response built without a status
OkStatus == 200
\* the date the prompt's example carries ("2024-01-01"), echoed by the backend
ExampleDate == 1

Null == "null"
Caller == "u1"
OtherUser == "u2"
Days == 7..13
ReqIds == 1..MaxRequests

MinutesPerHour == 60
MinutesPerDay == 1440

\* a timestamp: minutes since 00:00 of day 0
timestamp(date, hours, minutes) ==
    date * MinutesPerDay + hours * MinutesPerHour + minutes

(***************************************************************************)
(* Plan data                                                               *)
(***************************************************************************)
mealTypes == <<"Breakfast", "Lunch", "Dinner", "Snack">>

toLowerCase(s) ==
    CASE s = "Breakfast" -> "breakfast"
      [] s = "Lunch"     -> "lunch"
      [] s = "Dinner"    -> "dinner"
      [] s = "Snack"     -> "snack"
      [] s = "Tomato"    -> "tomato"
      [] s = "Eggs"      -> "eggs"
      [] s = "Rice"      -> "rice"
      [] s = "Beans"     -> "beans"
      [] OTHER           -> s

\* a payload without a days member
NoDaysPlan == [hasDays |-> FALSE, days |-> <<>>]

\* variant: the meal types are taken from the second on
fallbackMealFromSecond(preferences, j) ==
    LET t == mealTypes[((j + 1) % Len(mealTypes)) + 1]
    IN  [type        |-> t,
         name        |-> "Sample " \o t,
         recipe      |-> "A delicious " \o preferences.diet_type \o " "
                           \o toLowerCase(t) \o " with healthy ingredients.",
         ingredients |-> <<"Sample ingredient 1", "Sample ingredient 2">>]

fallbackMeal(preferences, j) ==
    LET t == mealTypes[(j % Len(mealTypes)) + 1]
    IN  [type        |-> t,
         name        |-> "Sample " \o t,
         recipe      |-> "A delicious " \o preferences.diet_type \o " "
                           \o toLowerCase(t) \o " with healthy ingredients.",
         ingredients |-> <<"Sample ingredient 1", "Sample ingredient 2">>]

\* generateFallbackMealPlan; now is the day Date.now() falls on
generateFallbackMealPlan(preferences, now) ==
    [hasDays |-> TRUE,
     days    |-> [i \in 1..preferences.total_days |->
                    [day   |-> i,
                     date  |-> now + (i - 1),
                     meals |-> [j \in 1..preferences.meals_per_day |->
                                  fallbackMeal(preferences, j - 1)]]]]

\* what the text-generation backend may put into a parsed plan
aiIngredients(j) == IF j % 3 = 0 THEN <<>> ELSE <<"rice", "Beans">>

aiMeal(j) ==
    LET t == mealTypes[((j - 1) % Len(mealTypes)) + 1]
    IN  [type        |-> t,
         name        |-> "Chef " \o t,
         recipe      |-> "Short recipe description",
         ingredients |-> aiIngredients(j)]

aiPlan(n, m) ==
    [hasDays |-> TRUE,
     days    |-> [i \in 1..n |->
                    [day |-> i, date |-> ExampleDate,
                     meals |-> [j \in 1..m |-> aiMeal(j)]]]]

\* parsed bodies with a days member: the requested shape, one day short,
\* or a single meal per day
aiPlans(preferences) ==
    { aiPlan(n, m) : n \in {preferences.total_days, preferences.total_days - 1},
                     m \in {preferences.meals_per_day, 1} }

\* outcomes of the fetch / response.ok / response.json / JSON.parse chain
BackendFailures == {"fetch_throws", "not_ok", "unparseable"}

\* the try/catch around the backend call: planData after it
resolvePlanData(preferences, outcome, parsed, now) ==
    IF outcome \in BackendFailures
    THEN generateFallbackMealPlan(preferences, now)
    ELSE parsed

(***************************************************************************)
(* Rows and messages                                                       *)
(***************************************************************************)
NoDate == 0
NoPrefs == [diet_type |-> Null, total_days |-> 0, meals_per_day |-> 0]
PrefsRows == [diet_type : {"vegan"}, total_days : 1..MaxDays,
              meals_per_day : 1..MaxMeals]

NoPlanRow == [id |-> 0, user_id |-> Null, week_start_date |-> NoDate,
              plan_data |-> NoDaysPlan, meals_per_day |-> 0, total_days |-> 0]

NoResponse == [status |-> 0, success |-> FALSE, mealPlan |-> NoPlanRow,
               planData |-> NoDaysPlan, error |-> Null]

FreeReq == [stage |-> "free", authHeader |-> "missing", body |-> NoPrefs,
            user |-> Null, aiCalled |-> FALSE, aiOutcome |-> Null,
            planData |-> NoDaysPlan, weekStartDate |-> NoDate,
            mealPlan |-> NoPlanRow, saveError |-> FALSE,
            ingredients |-> <<>>, groceryError |-> FALSE, inserted |-> 0,
            response |-> NoResponse]

\* the catch handler of serve: success false, status error.status || 500
errorResponse(message) ==
    [status |-> ErrorStatus, success |-> FALSE, mealPlan |-> NoPlanRow,
     planData |-> NoDaysPlan, error |-> message]

\* the Response built at the end of the try block
successResponse(mealPlan, data) ==
    [status |-> OkStatus, success |-> TRUE, mealPlan |-> mealPlan,
     planData |-> data, error |-> Null]

fail(req, message) ==
    [req EXCEPT !.stage = "responded", !.response = errorResponse(message)]

(***************************************************************************)
(* Ingredient expansion                                                    *)
(***************************************************************************)
RECURSIVE concatAll(_)
concatAll(ss) == IF ss = <<>> THEN <<>> ELSE Head(ss) \o concatAll(Tail(ss))

ingredientRow(userId, planId, ingredient) ==
    [user_id |-> userId, meal_plan_id |-> planId, week_start_date |-> NoDate,
     item_name |-> ingredient, quantity |-> "1 unit", is_purchased |-> FALSE]

mealIngredients(meal, userId, planId) ==
    IF Len(meal.ingredients) > 0
    THEN [k \in 1..Len(meal.ingredients) |->
            ingredientRow(userId, planId, meal.ingredients[k])]
    ELSE <<>>

dayIngredients(day, userId, planId) ==
    concatAll([j \in 1..Len(day.meals) |->
                 mealIngredients(day.meals[j], userId, planId)])

\* the nested loops over planData.days; iterating a missing days member throws
extractIngredients(data, userId, planId) ==
    IF ~data.hasDays
    THEN [threw |-> TRUE, rows |-> <<>>]
    ELSE [threw |-> FALSE,
          rows  |-> concatAll([i \in 1..Len(data.days) |->
                                 dayIngredients(data.days[i], userId, planId)])]

\* the store completes a row on insert: id, notes
storedGroceryRows(rows, firstId) ==
    [k \in 1..Len(rows) |->
        [id |-> firstId + k - 1, user_id |-> rows[k].user_id,
         meal_plan_id |-> rows[k].meal_plan_id,
         week_start_date |-> rows[k].week_start_date,
         item_name |-> rows[k].item_name, quantity |-> rows[k].quantity,
         is_purchased |-> rows[k].is_purchased, notes |-> Null]]

(***************************************************************************)
(* Edge function generate-meal-plan (serve)                                *)
(***************************************************************************)
\* supabase.auth.getUser(token): the user the token was issued to
getUser(authHeader) == IF authHeader = "other" THEN OtherUser ELSE Caller

\* variant: a request without a header is served as the default user
authenticateAnyone(req) ==
    CASE req.authHeader = "invalid" -> fail(req, "Unauthorized")
      [] OTHER -> [req EXCEPT !.stage = "authed", !.user = getUser(req.authHeader)]

\* Authorization header check and supabase.auth.getUser
authenticate(req) ==
    CASE req.authHeader = "missing" -> fail(req, "No authorization header")
      [] req.authHeader = "invalid" -> fail(req, "Unauthorized")
      [] OTHER -> [req EXCEPT !.stage = "authed", !.user = getUser(req.authHeader)]

Authenticate(r) ==
    /\ reqs[r].stage = "received"
    /\ reqs' = [reqs EXCEPT ![r] = authenticate(@)]
    /\ UNCHANGED <<listVars, calendarVars, pageVars, createdAt, dashVars, selectedDate, today, prefsRow, dbVars, clientVars>>

\* variant: the body is taken as it comes, preferences or not
parseBodyUnchecked(req) == [req EXCEPT !.stage = "parsed"]

\* req.json() and the preferences check
parseBody(req) ==
    IF req.body = NoPrefs
    THEN fail(req, "Invalid request body")
    ELSE [req EXCEPT !.stage = "parsed"]

ParseBody(r) ==
    /\ reqs[r].stage = "authed"
    /\ reqs' = [reqs EXCEPT ![r] = parseBody(@)]
    /\ UNCHANGED <<listVars, calendarVars, pageVars, createdAt, dashVars, selectedDate, today, prefsRow, dbVars, clientVars>>

\* new Date().toISOString().split('T')[0]
weekStartDateOf(now) == now

\* the backend call resolves: planData is set and the plan insert is issued
afterBackend(req, outcome, parsed, now) ==
    [req EXCEPT !.stage = "generated",
                !.aiCalled = TRUE,
                !.aiOutcome = outcome,
                !.planData = resolvePlanData(req.body, outcome, parsed, now),
                !.weekStartDate = weekStartDateOf(now)]

BackendResult(r) ==
    /\ reqs[r].stage = "parsed"
    /\ \E outcome \in BackendFailures \cup {"no_days", "plan"} :
         \E parsed \in IF outcome = "plan" THEN aiPlans(reqs[r].body)
                        ELSE {NoDaysPlan} :
            reqs' = [reqs EXCEPT ![r] = afterBackend(@, outcome, parsed, today)]
    /\ UNCHANGED <<listVars, calendarVars, pageVars, createdAt, dashVars, selectedDate, today, prefsRow, dbVars, clientVars>>

\* the row meal_plans.insert(...).select().single() returns
newPlanRow(req, id) ==
    [id |-> id, user_id |-> req.user, week_start_date |-> req.weekStartDate,
     plan_data |-> req.planData, meals_per_day |-> req.body.meals_per_day,
     total_days |-> req.body.total_days]

\* variant: the save error is logged and the handler goes on to respond
afterSaveErrorSwallowed(req) ==
    [req EXCEPT !.saveError = TRUE, !.stage = "responded",
                !.response = successResponse(NoPlanRow, req.planData)]

\* if (saveError) throw new Error('Failed to save meal plan')
afterSaveError(req) ==
    fail([req EXCEPT !.saveError = TRUE], "Failed to save meal plan")

\* the plan is saved: ingredients are collected; the grocery insert is
\* issued only for a non-empty list, otherwise the handler responds
afterSaved(req, row) ==
    LET ex == extractIngredients(req.planData, req.user, row.id)
    IN  IF ex.threw \/ Len(ex.rows) = 0
        THEN [req EXCEPT !.mealPlan = row, !.stage = "responded",
                         !.response = successResponse(row, req.planData)]
        ELSE [req EXCEPT !.mealPlan = row, !.stage = "saved",
                         !.ingredients = ex.rows]

\* variant: the caller's plan of the same week is replaced
upsertPlan(rows, row) ==
    SelectSeq(rows, LAMBDA mp : ~(/\ mp.user_id = row.user_id
                                  /\ mp.week_start_date = row.week_start_date))
      \o <<row>>

\* .from('meal_plans').insert({...})
insertPlan(rows, row) == Append(rows, row)

SavePlan(r) ==
    /\ reqs[r].stage = "generated"
    /\ \E ok \in BOOLEAN :
         IF ok
         THEN LET row == newPlanRow(reqs[r], Len(mealPlans) + 1)
              IN  /\ mealPlans' = insertPlan(mealPlans, row)
                  /\ createdAt' = Append(createdAt, timestamp(today, 0, clock))
                  /\ reqs' = [reqs EXCEPT ![r] = afterSaved(@, row)]
         ELSE /\ mealPlans' = mealPlans
              /\ createdAt' = createdAt
              /\ reqs' = [reqs EXCEPT ![r] = afterSaveError(@)]
    /\ UNCHANGED <<listVars, calendarVars, pageVars, dashVars, selectedDate, today, prefsRow, groceryLists, nextGroceryId, clientVars>>

\* variant: a grocery error is thrown to the outer catch
afterGroceryThrows(req, ok) ==
    IF ok
    THEN [req EXCEPT !.stage = "responded",
                     !.inserted = Len(req.ingredients),
                     !.response = successResponse(req.mealPlan, req.planData)]
    ELSE fail([req EXCEPT !.groceryError = TRUE], "Failed to save grocery list")

\* groceryError is logged only; the handler responds with success
afterGrocery(req, ok) ==
    [req EXCEPT !.stage = "responded",
                !.groceryError = ~ok,
                !.inserted = IF ok THEN Len(req.ingredients) ELSE 0,
                !.response = successResponse(req.mealPlan, req.planData)]

\* variant: the caller's list is rebuilt from the new plan
replaceGroceries(rows, ingredients) ==
    SelectSeq(rows, LAMBDA g : \A k \in 1..Len(ingredients) :
                                  g.user_id # ingredients[k].user_id)
      \o ingredients

\* .from('grocery_lists').insert(ingredients)
insertGroceries(rows, ingredients) == rows \o ingredients

SaveGroceries(r) ==
    /\ reqs[r].stage = "saved"
    /\ \E ok \in BOOLEAN :
         /\ reqs' = [reqs EXCEPT ![r] = afterGrocery(@, ok)]
         /\ IF ok
            THEN /\ groceryLists' = insertGroceries(groceryLists,
                        storedGroceryRows(reqs[r].ingredients, nextGroceryId))
                 /\ nextGroceryId' = nextGroceryId + Len(reqs[r].ingredients)
            ELSE UNCHANGED <<groceryLists, nextGroceryId>>
    /\ UNCHANGED <<listVars, calendarVars, pageVars, createdAt, dashVars, selectedDate, today, prefsRow, mealPlans, clientVars>>

(***************************************************************************)
(* Callers outside the web client: any HTTP client can post to the         *)
(* function, with or without credentials, with or without preferences      *)
(***************************************************************************)
freeSlots == {r \in DOMAIN reqs : reqs[r].stage = "free"}

newRequest(header, body) ==
    [FreeReq EXCEPT !.stage = "received", !.authHeader = header, !.body = body]

\* a request the web client is about to send keeps its place in the table
reserved == IF cpc = "fetchPrefs" THEN 1 ELSE 0

ForeignInvoke ==
    /\ Cardinality(freeSlots) > reserved
    /\ \E header \in {"missing", "invalid", "valid"} :
         LET r == CHOOSE x \in freeSlots : \A y \in freeSlots : x <= y
         IN  reqs' = [reqs EXCEPT ![r] = newRequest(header, NoPrefs)]
    /\ UNCHANGED <<listVars, calendarVars, pageVars, createdAt, dashVars, selectedDate, today, prefsRow, dbVars, clientVars>>

(***************************************************************************)
(* Web client: MealPlanViewer                                              *)
(***************************************************************************)
NoToast == [title |-> "none", description |-> "none"]
NoView == [present |-> FALSE, data |-> NoDaysPlan]

TimedOutMsg == "Request timed out after 20s"
HttpErrorMsg == "Edge Function returned a non-2xx status code"
FetchErrorMsg == "Failed to send a request to the Edge Function"

getDay(date) == date % 7

\* getStartOfWeek: midnight of the Sunday on or before date
getStartOfWeek(date) == date - getDay(date)

\* the useEffect on currentMealPlan: days re-dated from week_start_date
daysWithDates(plan, now) ==
    LET weekStart == IF plan.week_start_date # NoDate
                     THEN plan.week_start_date
                     ELSE getStartOfWeek(now)
    IN  [idx \in 1..Len(plan.plan_data.days) |->
           [plan.plan_data.days[idx] EXCEPT !.date = weekStart + (idx - 1)]]

viewOf(plan, now) ==
    [present |-> TRUE,
     data    |-> [hasDays |-> plan.plan_data.hasDays,
                  days    |-> daysWithDates(plan, now)]]

\* .from('diet_preferences').select('*').eq('user_id', ...).single()
selectPreferences(row) ==
    IF row = NoPrefs
    THEN {[data |-> NoPrefs, error |-> FALSE], [data |-> NoPrefs, error |-> TRUE]}
    ELSE {[data |-> row, error |-> FALSE], [data |-> NoPrefs, error |-> TRUE]}

\* supabase.functions.invoke: a non-2xx status comes back as error
invoke(response) ==
    IF response.status >= 400
    THEN [hasData |-> FALSE, data |-> NoResponse, error |-> HttpErrorMsg]
    ELSE [hasData |-> TRUE, data |-> response, error |-> Null]

\* variant: the response is used without looking at error or success
edgeErrorUnchecked(result) == Null

\* the message of the error thrown inside the inner try, Null when none
edgeError(result) ==
    CASE result.error # Null    -> result.error
      [] ~result.hasData        -> "No data returned from the server"
      [] ~result.data.success   -> "Unexpected response from the server"
      [] OTHER                  -> Null

errorToast(message) == [title |-> "Error", description |-> message]

generationFailed(message) ==
    errorToast("Failed to generate meal plan: " \o message)

\* variant: loading is cleared on the success path only
loadingClearedOnSuccess(t) == t.title # "Success!"

\* finally { setLoading(false) }
loadingAfter(t) == FALSE

\* setLoading(true), then the preferences lookup is awaited
GenerateClick ==
    /\ cpc = "idle"
    /\ freeSlots # {}
    /\ cpc' = "fetchPrefs"
    /\ loading' = TRUE
    /\ UNCHANGED <<listVars, calendarVars, pageVars, createdAt, dashVars, selectedDate, today, prefsRow, reqs, dbVars, cReq, toast, planData,
                   currentMealPlan, defaultTab>>

\* the lookup settles: error, no preferences, or the function is invoked
PrefsResult ==
    /\ cpc = "fetchPrefs"
    /\ \E res \in selectPreferences(prefsRow) :
         CASE res.error ->
                /\ toast' = errorToast("Failed to load your preferences. Please try again.")
                /\ loading' = loadingAfter(toast')
                /\ cpc' = "idle"
                /\ UNCHANGED <<reqs, cReq>>
           [] ~res.error /\ res.data = NoPrefs ->
                /\ toast' = [title |-> "Profile Incomplete",
                             description |-> "No preferences found. Please complete your profile first."]
                /\ loading' = loadingAfter(toast')
                /\ cpc' = "idle"
                /\ UNCHANGED <<reqs, cReq>>
           [] OTHER ->
                LET r == CHOOSE x \in freeSlots : \A y \in freeSlots : x <= y
                IN  /\ reqs' = [reqs EXCEPT ![r] = newRequest("valid", res.data)]
                    /\ cReq' = r
                    /\ cpc' = "invoking"
                    /\ UNCHANGED <<toast, loading>>
    /\ UNCHANGED <<listVars, calendarVars, pageVars, createdAt, dashVars, selectedDate, today, prefsRow, dbVars, planData, currentMealPlan, defaultTab>>

\* the call ends in the catch blocks: nothing but the toast and loading change
rejectCall(message) ==
    /\ toast' = generationFailed(message)
    /\ loading' = loadingAfter(toast')
    /\ cpc' = "idle"
    /\ UNCHANGED <<cReq, planData, currentMealPlan, defaultTab>>

\* the 20 s timer wins the Promise.race; the invocation itself goes on
Timeout ==
    /\ cpc = "invoking"
    /\ rejectCall(TimedOutMsg)
    /\ UNCHANGED <<listVars, calendarVars, pageVars, createdAt, dashVars, selectedDate, today, prefsRow, reqs, dbVars>>

\* the request or its response is lost on the way
InvokeFetchError ==
    /\ cpc = "invoking"
    /\ rejectCall(FetchErrorMsg)
    /\ UNCHANGED <<listVars, calendarVars, pageVars, createdAt, dashVars, selectedDate, today, prefsRow, reqs, dbVars>>

\* the response arrives before the timer fires
InvokeResult ==
    /\ cpc = "invoking"
    /\ reqs[cReq].stage = "responded"
    /\ LET result == invoke(reqs[cReq].response)
           err == edgeError(result)
       IN  IF err # Null
           THEN rejectCall(err)
           ELSE /\ currentMealPlan' = result.data.mealPlan
                /\ planData' = viewOf(result.data.mealPlan, today)
                /\ defaultTab' = getDay(today) + 1
                /\ toast' = [title |-> "Success!",
                             description |-> "Your meal plan has been generated."]
                /\ loading' = loadingAfter(toast')
                /\ cpc' = "idle"
                /\ UNCHANGED cReq
    /\ UNCHANGED <<listVars, calendarVars, pageVars, createdAt, dashVars, selectedDate, today, prefsRow, reqs, dbVars>>

(***************************************************************************)
(* Web client: GroceryList                                                 *)
(***************************************************************************)
\* String.prototype.split(', ') on the quantity texts a row can carry
split(s) ==
    CASE s = "1 cup, chopped" -> <<"1 cup", "chopped">>
      [] OTHER                -> <<s>>

\* Array.prototype.join(', '); a text is held with the list of its parts, so
\* the parts of a joined text are the parts of its elements, one after another
RECURSIVE join(_)
join(q) ==
    IF Len(q) = 0 THEN ""
    ELSE IF Len(q) = 1 THEN q[1]
    ELSE q[1] \o ", " \o join(Tail(q))

\* what join writes for an element: null comes out as the empty text
joinText(x) == IF x = Null THEN "" ELSE x

\* Array.prototype.includes: strict equality with an element
includes(quantities, x) == \E i \in 1..Len(quantities) : quantities[i] = x

\* variant: the name itself is the key
keyOfExact(item) == item.item_name

\* const key = item.item_name.toLowerCase()
keyOf(item) == toLowerCase(item.item_name)

\* the object stored under a new key; quantity: item.quantity || '1 unit'
newGroup(item) ==
    [id |-> item.id, item_name |-> item.item_name,
     quantity |-> IF item.quantity \in {Null, ""} THEN "1 unit" ELSE item.quantity,
     is_purchased |-> item.is_purchased, notes |-> item.notes]

\* variant: only the key stored last is looked up
reduceStepLastKey(acc, item) ==
    LET key == keyOf(item)
    IN  IF acc # <<>> /\ acc[Len(acc)].key = key
        THEN acc
        ELSE Append(acc, [key   |-> key,
                          item  |-> newGroup(item),
                          parts |-> split(newGroup(item).quantity)])

\* one call of the reducer; acc lists the keys in insertion order, each with
\* its object and the parts of the object's quantity text
reduceStep(acc, item) ==
    LET key == keyOf(item)
        at  == {k \in 1..Len(acc) : acc[k].key = key}
    IN  IF at # {}
        THEN LET k == CHOOSE x \in at : TRUE
                 quantities == acc[k].parts
                 pushed == IF includes(quantities, item.quantity)
                           THEN quantities
                           ELSE quantities \o split(joinText(item.quantity))
             IN  [acc EXCEPT ![k].parts = pushed,
                             ![k].item.quantity = join(pushed)]
        ELSE Append(acc, [key   |-> key,
                          item  |-> newGroup(item),
                          parts |-> split(newGroup(item).quantity)])

RECURSIVE reduce(_, _)
reduce(acc, data) ==
    IF data = <<>> THEN acc ELSE reduce(reduceStep(acc, Head(data)), Tail(data))

\* Object.values(groupedItems)
aggregate(data) ==
    LET groupedItems == reduce(<<>>, data)
    IN  [k \in 1..Len(groupedItems) |-> groupedItems[k].item]

\* setGroceryItems(Object.values(groupedItems)) on the rows a select returned
GroupItems ==
    /\ groceryItems = <<>>
    /\ groceryData # <<>>
    /\ groceryItems' = aggregate(groceryData)
    /\ UNCHANGED <<calendarVars, pageVars, createdAt, dashVars, selectedDate, today, prefsRow, reqs, dbVars, clientVars, groceryData>>

\* the database's order of item names (.order('item_name', ascending))
collate(name) ==
    CASE name = "Beans" -> 1
      [] name = "Eggs"  -> 2
      [] name = "Rice"  -> 3
      [] OTHER          -> 4

\* the sequence rows, taken in the order p
permute(rows, p) == [k \in 1..Len(rows) |-> rows[p[k]]]

\* .from('grocery_lists').select('*').eq('user_id', ..).eq('week_start_date', ..)
\* .order('item_name'): the matching rows by name, equal names in any order
selectGroceries(rows, userId, weekStartDate) ==
    LET found == SelectSeq(rows,
                     LAMBDA g : g.user_id = userId /\ g.week_start_date = weekStartDate)
    IN  { permute(found, p) : p \in
            { q \in Permutations(1..Len(found)) :
                \A i, j \in 1..Len(found) :
                    i < j => collate(found[q[i]].item_name) <= collate(found[q[j]].item_name) } }

\* .from('meal_plans').select('week_start_date').eq('user_id', ..)
availableWeeks(userId) == SelectSeq(mealPlans, LAMBDA mp : mp.user_id = userId)

storeError == errorToast("store error")

\* fetchAvailableWeeks, then loadGroceryItems once a week is selected; the
\* week queried is the Sunday that starts the current week
OpenList ==
    /\ \E weeksOk, loadOk \in BOOLEAN :
         IF ~weeksOk
         THEN toast' = storeError /\ UNCHANGED listVars
         ELSE IF availableWeeks(Caller) = <<>>
         THEN UNCHANGED <<toast, listVars>>
         ELSE IF ~loadOk
         THEN toast' = storeError /\ UNCHANGED listVars
         ELSE /\ \E data \in selectGroceries(groceryLists, Caller, getStartOfWeek(today)) :
                   /\ groceryData' = data
                   /\ groceryItems' = aggregate(data)
              /\ UNCHANGED toast
    /\ UNCHANGED <<calendarVars, pageVars, createdAt, dashVars, selectedDate, today, prefsRow, reqs, dbVars, cpc, cReq, loading,
                   planData, currentMealPlan, defaultTab>>

\* variant: every row of the item's name is updated
updateByName(rows, itemId, isPurchased) ==
    [k \in 1..Len(rows) |->
        IF \E j \in 1..Len(rows) :
              rows[j].id = itemId /\ rows[j].item_name = rows[k].item_name
        THEN [rows[k] EXCEPT !.is_purchased = isPurchased]
        ELSE rows[k]]

\* .update({ is_purchased }).eq('id', itemId); on the table the caller's own
\* rows only (row level security), on the view every item with that id
updateById(rows, itemId, isPurchased) ==
    [k \in 1..Len(rows) |->
        IF rows[k].id = itemId
        THEN [rows[k] EXCEPT !.is_purchased = isPurchased]
        ELSE rows[k]]

\* row-level policy of every table: USING (auth.uid() = user_id)
rowPolicy(row, uid) == row.user_id = uid

togglePurchased(itemId, isPurchased, ok) ==
    IF ok
    THEN /\ groceryLists' =
              [k \in 1..Len(groceryLists) |->
                  IF rowPolicy(groceryLists[k], Caller)
                  THEN updateById(groceryLists, itemId, isPurchased)[k]
                  ELSE groceryLists[k]]
         /\ groceryItems' = updateById(groceryItems, itemId, isPurchased)
         /\ UNCHANGED toast
    ELSE /\ toast' = storeError
         /\ UNCHANGED <<groceryLists, groceryItems>>

\* the checkbox of a listed item
TogglePurchased ==
    /\ \E k \in 1..Len(groceryItems) : \E isPurchased, ok \in BOOLEAN :
         togglePurchased(groceryItems[k].id, isPurchased, ok)
    /\ UNCHANGED <<calendarVars, pageVars, createdAt, dashVars, selectedDate, today, prefsRow, reqs, mealPlans, nextGroceryId,
                   cpc, cReq, loading, planData, currentMealPlan, defaultTab,
                   groceryData>>

\* variant: every row sharing its name with a purchased row is deleted
purchasedByName(g, userId) ==
    /\ g.user_id = userId
    /\ \E k \in 1..Len(groceryLists) :
         /\ groceryLists[k].user_id = userId
         /\ groceryLists[k].is_purchased
         /\ toLowerCase(groceryLists[k].item_name) = toLowerCase(g.item_name)

\* variant: the purchased rows of the week on display only
purchasedThisWeek(g, userId) ==
    g.user_id = userId /\ g.is_purchased /\ g.week_start_date = getStartOfWeek(today)

\* .delete().eq('user_id', user.id).eq('is_purchased', true)
purchasedOf(g, userId) == g.user_id = userId /\ g.is_purchased

\* clearPurchased: the delete, then loadGroceryItems() and the toast
ClearPurchased ==
    /\ \E ok, loadOk \in BOOLEAN :
         IF ~ok
         THEN /\ toast' = storeError
              /\ UNCHANGED <<groceryLists, listVars>>
         ELSE /\ groceryLists' = SelectSeq(groceryLists,
                                     LAMBDA g : ~purchasedOf(g, Caller))
              /\ IF loadOk
                 THEN /\ \E data \in selectGroceries(groceryLists', Caller, getStartOfWeek(today)) :
                           /\ groceryData' = data
                           /\ groceryItems' = aggregate(data)
                      /\ toast' = [title |-> "Success",
                                   description |-> "Purchased items cleared."]
                 ELSE /\ toast' = storeError
                      /\ UNCHANGED listVars
    /\ UNCHANGED <<calendarVars, pageVars, createdAt, dashVars, selectedDate, today, prefsRow, reqs, mealPlans, nextGroceryId,
                   cpc, cReq, loading, planData, currentMealPlan, defaultTab>>

(***************************************************************************)
(* Web client: MealCalendar                                                *)
(***************************************************************************)
\* new Date()
now == timestamp(today, 0, clock)

\* meal_times without any slot: the column's default '{}'
NoMealTimes == [breakfast |-> Null, lunch |-> Null, dinner |-> Null]

NoRemPrefs == [present |-> FALSE, has_meal_times |-> FALSE,
               meal_times |-> NoMealTimes, reminder_tone |-> Null]

\* .from('diet_preferences').select('meal_times, reminder_tone').single():
\* the row, or null with an error when there is none or the lookup fails
selectReminderPrefs(row) ==
    IF row.present
    THEN {[data |-> row, error |-> FALSE], [data |-> NoRemPrefs, error |-> TRUE]}
    ELSE {[data |-> NoRemPrefs, error |-> TRUE]}

\* preferences?.meal_times || { breakfast: '08:00', lunch: '12:00', dinner: '18:00' }
mealTimesOf(preferences) ==
    IF preferences.present /\ preferences.has_meal_times
    THEN preferences.meal_times
    ELSE [breakfast |-> "08:00", lunch |-> "12:00", dinner |-> "18:00"]

\* preferences?.reminder_tone || 'motivational'
reminderToneOf(preferences) ==
    IF preferences.present /\ preferences.reminder_tone # Null
    THEN preferences.reminder_tone
    ELSE "motivational"

\* mealTimes[mealType] || '12:00'
mealTimeOf(mealTimes, mealType) ==
    LET t == CASE mealType = "breakfast" -> mealTimes.breakfast
               [] mealType = "lunch"     -> mealTimes.lunch
               [] mealType = "dinner"    -> mealTimes.dinner
               [] OTHER                  -> Null
    IN  IF t \in {Null, ""} THEN "12:00" ELSE t

\* mealTime.split(':') and parseInt of both parts
parseTime(mealTime) ==
    CASE mealTime = "00:30" -> [hours |-> 0,  minutes |-> 30]
      [] mealTime = "07:30" -> [hours |-> 7,  minutes |-> 30]
      [] mealTime = "08:00" -> [hours |-> 8,  minutes |-> 0]
      [] mealTime = "12:00" -> [hours |-> 12, minutes |-> 0]
      [] mealTime = "18:00" -> [hours |-> 18, minutes |-> 0]

\* date-fns startOfWeek(date, { weekStartsOn })
startOfWeek(date, weekStartsOn) == date - ((getDay(date) - weekStartsOn + 7) % 7)

\* date-fns addDays
addDays(date, amount) == date + amount

prepMessage(reminderTone, meal) ==
    CASE reminderTone = "funny"  ->
            "Time to channel your inner chef! Get ready to make " \o meal.name
      [] reminderTone = "gentle" ->
            "Gentle reminder: It's time to start preparing " \o meal.name
      [] OTHER ->
            "Fuel your body! Time to prep " \o meal.name

mealMessage(reminderTone, meal) ==
    CASE reminderTone = "funny"  ->
            "Your stomach is calling - " \o meal.name \o " is ready to be devoured!"
      [] reminderTone = "gentle" ->
            "Time for your " \o toLowerCase(meal.type) \o ". Enjoy your " \o meal.name
      [] OTHER ->
            "Your day gets better when you eat well. It's time for " \o meal.name \o "!"

regenerateMessage ==
    "Ready for your next week's plan? Time to regenerate your meal plan!"

notification(userId, planId, message, scheduledTime) ==
    [user_id |-> userId, meal_plan_id |-> planId, message |-> message,
     scheduled_time |-> scheduledTime, is_sent |-> FALSE]

\* no change of the clocks
NoDst == [day |-> NoDate, shift |-> 0]

\* minutes local time is ahead of UTC at a local wall-clock time: the clocks
\* move by dst.shift at 02:00 of dst.day
offsetAt(wall) ==
    timeZone + (IF dst.day # NoDate /\ wall >= timestamp(dst.day, 2, 0)
                THEN dst.shift ELSE 0)

\* Date.getTime() of the Date that shows a local wall-clock time
instantOf(wall) == wall - offsetAt(wall)

\* the local wall-clock time a Date shows
wallOf(t) ==
    t + timeZone + (IF dst.day # NoDate /\ t >= timestamp(dst.day, 2, 0) - timeZone
                    THEN dst.shift ELSE 0)

\* the two pushes of one meal: prep reminder, then meal reminder; setHours
\* works on local time, toISOString gives the instant
mealReminders(meal, dayDate, mealTimes, reminderTone, planId) ==
    LET mealTime      == mealTimeOf(mealTimes, toLowerCase(meal.type))
        scheduledTime == timestamp(dayDate, parseTime(mealTime).hours,
                                   parseTime(mealTime).minutes)
        prepTime      == scheduledTime - MinutesPerHour
    IN  << notification(Caller, planId, prepMessage(reminderTone, meal),
                        instantOf(prepTime)),
           notification(Caller, planId, mealMessage(reminderTone, meal),
                        instantOf(scheduledTime)) >>

\* variant: the week of the regeneration reminder starts on Sunday
regenerationReminderSundayWeek(date, planId) ==
    notification(Caller, planId, regenerateMessage,
                 instantOf(timestamp(addDays(startOfWeek(date, 0), 6), 10, 0)))

\* nextSunday = addDays(weekStart, 6) at 10:00
regenerationReminder(date, planId) ==
    notification(Caller, planId, regenerateMessage,
                 instantOf(timestamp(addDays(startOfWeek(date, 1), 6), 10, 0)))

\* newNotifications once both loops and the last push are done; date is the
\* day new Date() falls on
newNotifications(plan, mealTimes, reminderTone, date) ==
    LET weekStart == startOfWeek(date, 1)
        days      == plan.plan_data.days
    IN  concatAll([i \in 1..Len(days) |->
            concatAll([j \in 1..Len(days[i].meals) |->
                mealReminders(days[i].meals[j], addDays(weekStart, days[i].day - 1),
                              mealTimes, reminderTone, plan.id)])])
        \o <<regenerationReminder(date, plan.id)>>

\* insertion sort by scheduled_time, earlier rows first among equal times
RECURSIVE orderByTime(_)
orderByTime(rows) ==
    IF rows = <<>> THEN <<>>
    ELSE LET rest == orderByTime(Tail(rows))
             before == SelectSeq(rest, LAMBDA n : n.scheduled_time < Head(rows).scheduled_time)
             after  == SelectSeq(rest, LAMBDA n : n.scheduled_time >= Head(rows).scheduled_time)
         IN  before \o <<Head(rows)>> \o after

\* .select('*').eq('user_id', ..).gte('scheduled_time', now).order('scheduled_time')
selectNotifications(rows, userId, time) ==
    orderByTime(SelectSeq(rows,
        LAMBDA n : n.user_id = userId /\ n.scheduled_time >= time))

\* loadNotifications: a failed select is logged and leaves the view as it is
loadNotifications(rows, ok) ==
    notifView' = IF ok THEN selectNotifications(rows, Caller, now) ELSE notifView

\* the calendar is shown: useEffect -> loadNotifications
OpenCalendar ==
    /\ \E ok \in BOOLEAN : loadNotifications(notifications, ok)
    /\ UNCHANGED <<listVars, pageVars, createdAt, dashVars, selectedDate, today, prefsRow, reqs, dbVars, clientVars,
                   clock, remPrefs, notifications, batches>>

\* variant: if (error) throw error
lookupErrorRethrown(result) == result.error

\* const { data: preferences } = await ...: the error member is never read
lookupErrorThrown(result) == FALSE

lookupError == errorToast("JSON object requested, multiple (or no) rows returned")

notIterable == errorToast("currentMealPlan.plan_data.days is not iterable")

\* generateWeeklyReminders
ScheduleReminders ==
    /\ batches < MaxBatches
    /\ IF currentMealPlan = NoPlanRow
       THEN /\ toast' = [title |-> "No meal plan",
                         description |-> "Generate a meal plan first to create reminders."]
            /\ UNCHANGED <<notifications, notifView, batches>>
       ELSE \E result \in selectReminderPrefs(remPrefs) : \E ok, loadOk \in BOOLEAN :
              LET preferences == result.data
                  batch == newNotifications(currentMealPlan, mealTimesOf(preferences),
                                            reminderToneOf(preferences), today)
              IN  IF lookupErrorThrown(result)
                  THEN /\ toast' = lookupError
                       /\ UNCHANGED <<notifications, notifView, batches>>
                  ELSE IF ~currentMealPlan.plan_data.hasDays
                  THEN /\ toast' = notIterable
                       /\ UNCHANGED <<notifications, notifView, batches>>
                  ELSE IF ~ok
                  THEN /\ toast' = storeError
                       /\ UNCHANGED <<notifications, notifView, batches>>
                  ELSE /\ notifications' = notifications \o batch
                       /\ batches' = batches + 1
                       /\ loadNotifications(notifications', loadOk)
                       /\ toast' = [title |-> "Success!",
                                    description |-> ToString(Len(batch))
                                        \o " reminders created for your meal plan."]
    /\ UNCHANGED <<listVars, pageVars, createdAt, dashVars, selectedDate, today, prefsRow, reqs, dbVars, cpc, cReq, loading,
                   planData, currentMealPlan, defaultTab, clock, remPrefs>>

\* variant: rows scheduled at the very moment are deleted as well
isPastOrNow(n, userId, time) == n.user_id = userId /\ n.scheduled_time <= time

\* .delete().eq('user_id', user.id).lt('scheduled_time', now)
isPast(n, userId, time) == n.user_id = userId /\ n.scheduled_time < time

\* clearOldNotifications
ClearOldNotifications ==
    /\ \E ok, loadOk \in BOOLEAN :
         IF ok
         THEN /\ notifications' = SelectSeq(notifications,
                                      LAMBDA n : ~isPast(n, Caller, now))
              /\ loadNotifications(notifications', loadOk)
              /\ toast' = [title |-> "Success",
                           description |-> "Old notifications cleared."]
         ELSE /\ toast' = storeError
              /\ UNCHANGED <<notifications, notifView>>
    /\ UNCHANGED <<listVars, pageVars, createdAt, dashVars, selectedDate, today, prefsRow, reqs, dbVars, cpc, cReq, loading,
                   planData, currentMealPlan, defaultTab, clock, remPrefs, batches>>

\* the times of day at which the calendar is looked at
ClockTimes == {0, 12 * MinutesPerHour, 20 * MinutesPerHour}

\* time passes
Tick ==
    /\ \E t \in ClockTimes : t > clock /\ clock' = t
    /\ UNCHANGED <<listVars, pageVars, createdAt, dashVars, selectedDate, today, prefsRow, reqs, dbVars, clientVars,
                   remPrefs, notifications, notifView, batches>>

(***************************************************************************)
(* Week computations of the web client, on instants (minutes, UTC) read    *)
(* in the browser's time zone                                              *)
(***************************************************************************)
\* the fields of a Date are read and set in local time
localTime(t, tz) == t + tz

\* Date.prototype.getDay
getDayLocal(t, tz) == (localTime(t, tz) \div MinutesPerDay) % 7

\* Date.prototype.setHours(0, 0, 0, 0)
setHoursZero(t, tz) == t - (localTime(t, tz) % MinutesPerDay)

\* Date.prototype.setDate(getDate() + n)
setDate(t, n) == t + n * MinutesPerDay

\* toISOString().split('T')[0]: the calendar day in UTC
formatDate(t) == t \div MinutesPerDay

\* the calendar day in local time
localDate(t, tz) == localTime(t, tz) \div MinutesPerDay

NoWeek == [of |-> "none", start |-> 0, end |-> 0, date |-> NoDate]

\* MealPlanViewer.getStartOfWeek (Sunday)
getStartOfWeekLocal(date, tz) ==
    LET d == setHoursZero(date, tz)
    IN  setDate(d, 0 - getDayLocal(d, tz))

\* variant: the week runs from Sunday to Saturday
getSundayWeekRange(t, tz) ==
    LET start == setHoursZero(setDate(t, 0 - getDayLocal(t, tz)), tz)
    IN  [weekStart |-> start,
         weekEnd   |-> setHoursZero(setDate(start, 6), tz) + MinutesPerDay - 1]

\* getCurrentWeekRange (Monday to Sunday); weekEnd is the last instant of
\* the Sunday, 23:59:59.999
getCurrentWeekRange(t, tz) ==
    LET day          == getDayLocal(t, tz)
        diffToMonday == IF day = 0 THEN 0 - 6 ELSE 1 - day
        start        == setHoursZero(setDate(t, diffToMonday), tz)
    IN  [weekStart |-> start,
         weekEnd   |-> setHoursZero(setDate(start, 6), tz) + MinutesPerDay - 1]

\* loadGroceryItems: weekStartDate, the current week's Sunday as YYYY-MM-DD
currentSunday(t, tz) ==
    LET dayOfWeek       == getDayLocal(t, tz)
        daysSinceSunday == IF dayOfWeek = 0 THEN 0 ELSE 0 - dayOfWeek
    IN  formatDate(setHoursZero(setDate(t, daysSinceSunday), tz))

GetStartOfWeek ==
    /\ weekResult' = [NoWeek EXCEPT !.of = "getStartOfWeek",
                                   !.start = getStartOfWeekLocal(now, timeZone)]
    /\ UNCHANGED <<listVars, calendarVars, timeZone, dst, createdAt, dashVars, selectedDate, today, prefsRow, reqs,
                   dbVars, clientVars>>

GetCurrentWeekRange ==
    /\ weekResult' = [NoWeek EXCEPT !.of = "getCurrentWeekRange",
                                   !.start = getCurrentWeekRange(now, timeZone).weekStart,
                                   !.end = getCurrentWeekRange(now, timeZone).weekEnd]
    /\ UNCHANGED <<listVars, calendarVars, timeZone, dst, createdAt, dashVars, selectedDate, today, prefsRow, reqs,
                   dbVars, clientVars>>

CurrentSunday ==
    /\ weekResult' = [NoWeek EXCEPT !.of = "loadGroceryItems",
                                   !.date = currentSunday(now, timeZone)]
    /\ UNCHANGED <<listVars, calendarVars, timeZone, dst, createdAt, dashVars, selectedDate, today, prefsRow, reqs,
                   dbVars, clientVars>>

\* .from('meal_plans').select('id, created_at, week_start_date')
\* .eq('user_id', ..).order('created_at', { ascending: false }): the row
\* numbers of the user's plans, newest first, equal times in any order
plansNewestFirst(userId) ==
    LET found == { i \in 1..Len(mealPlans) : mealPlans[i].user_id = userId }
    IN  { q \in [1..Cardinality(found) -> found] :
            /\ \A i, j \in 1..Cardinality(found) : i # j => q[i] # q[j]
            /\ \A i, j \in 1..Cardinality(found) :
                 i < j => createdAt[q[i]] >= createdAt[q[j]] }

\* (mealPlans || []).find(mp => created >= weekStart && created <= weekEnd):
\* the first such row number, 0 when there is none
findThisWeekPlan(q, range) ==
    LET hits == { k \in 1..Len(q) : /\ createdAt[q[k]] >= range.weekStart
                                    /\ createdAt[q[k]] <= range.weekEnd }
    IN  IF hits = {} THEN 0
        ELSE q[CHOOSE k \in hits : \A h \in hits : k <= h]

\* loadCurrentWeekGroceryItems
LoadCurrentWeek ==
    /\ \E plansOk, loadOk \in BOOLEAN :
         IF ~plansOk
         THEN toast' = storeError /\ UNCHANGED listVars
         ELSE \E q \in plansNewestFirst(Caller) :
                LET thisWeekPlan == findThisWeekPlan(q, getCurrentWeekRange(now, timeZone))
                IN  IF thisWeekPlan = 0
                    THEN /\ groceryItems' = <<>>
                         /\ UNCHANGED <<toast, groceryData>>
                    ELSE IF ~loadOk
                    THEN toast' = storeError /\ UNCHANGED listVars
                    ELSE /\ \E data \in selectGroceries(groceryLists, Caller,
                                           mealPlans[thisWeekPlan].week_start_date) :
                              /\ groceryData' = data
                              /\ groceryItems' = aggregate(data)
                         /\ UNCHANGED toast
    /\ UNCHANGED <<calendarVars, pageVars, createdAt, dashVars, selectedDate, today, prefsRow, reqs, dbVars, cpc, cReq,
                   loading, planData, currentMealPlan, defaultTab>>

(***************************************************************************)
(* Specification                                                           *)
(***************************************************************************)
\* New York in winter, UTC, India
TimeZones == {0 - 5 * MinutesPerHour, 0, 5 * MinutesPerHour + 30}

\* the Dashboard has not been shown yet: hasProfile false, the profile tab
DashIdle ==
    /\ fullName = Null
    /\ profileComplete = Null
    /\ hasProfile = FALSE
    /\ activeTab = "profile"
    /\ checks = <<>>
    /\ mounted = FALSE

\* the page runs in UTC and no week has been computed
PageIdle == timeZone = 0 /\ weekResult = NoWeek /\ dst = NoDst

\* created_at of stored plans: the function tags a plan with the day it is created
createdOn(rows) == [i \in 1..Len(rows) |-> timestamp(rows[i].week_start_date, 0, 0)]
\* the grocery list and the calendar have not been opened
ListClosed == groceryData = <<>> /\ groceryItems = <<>>

CalendarClosed ==
    /\ clock = 0
    /\ remPrefs = NoRemPrefs
    /\ notifications = <<>>
    /\ notifView = <<>>
    /\ batches = 0

\* nothing has been generated and no generation is running
PipelineIdle ==
    /\ reqs = [r \in ReqIds |-> FreeReq]
    /\ nextGroceryId = 1
    /\ cpc = "idle"
    /\ cReq = 0
    /\ loading = FALSE
    /\ toast = NoToast
    /\ planData = NoView

\* The day and the stored preferences are inputs; they vary one at a time:
\* every day of a week with the smallest row, every row on a Wednesday.
Init ==
    /\ today \in Days
    /\ prefsRow \in PrefsRows \cup {NoPrefs}
    /\ \/ today = 10
       \/ prefsRow = [diet_type |-> "vegan", total_days |-> 1, meals_per_day |-> 1]
    /\ reqs = [r \in ReqIds |-> FreeReq]
    /\ mealPlans = <<>>
    /\ groceryLists = <<>>
    /\ nextGroceryId = 1
    /\ cpc = "idle"
    /\ cReq = 0
    /\ loading = FALSE
    /\ toast = NoToast
    /\ planData = NoView
    /\ currentMealPlan = NoPlanRow
    /\ defaultTab = 1
    /\ DashIdle
    /\ ListClosed
    /\ CalendarClosed
    /\ PageIdle
    /\ createdAt = <<>>
    /\ selectedDate = now

Next ==
    \/ GenerateClick
    \/ PrefsResult
    \/ Timeout
    \/ InvokeFetchError
    \/ InvokeResult
    \/ ForeignInvoke
    \/ \E r \in ReqIds : Authenticate(r)
    \/ \E r \in ReqIds : ParseBody(r)
    \/ \E r \in ReqIds : BackendResult(r)
    \/ \E r \in ReqIds : SavePlan(r)
    \/ \E r \in ReqIds : SaveGroceries(r)

Spec == Init /\ [][Next]_vars

\* The preferences lookup settles and the 20 s timer of the Promise.race
\* fires unless the response came first; the function itself may be slow.
FairInit == Init /\ today = 10 /\ prefsRow.total_days <= 1

FairSpec == FairInit /\ [][Next]_vars /\ WF_vars(PrefsResult) /\ WF_vars(Timeout)

(***************************************************************************)
(* The grouping of the grocery view, applied to every short list of rows   *)
(***************************************************************************)
\* a row as the store returns it; notes are set on every second row
listRow(id, userId, weekStartDate, name, quantity, purchased) ==
    [id |-> id, user_id |-> userId,
     meal_plan_id |-> IF weekStartDate = NoDate THEN 1 ELSE 0,
     week_start_date |-> weekStartDate,
     item_name |-> name, quantity |-> quantity, is_purchased |-> purchased,
     notes |-> IF id % 2 = 0 THEN "organic" ELSE Null]

\* lists of at most n rows, numbered in order
listsOf(n, users, weeks, names, quantities) ==
    UNION { { [k \in 1..len |-> listRow(k, f[k].user, f[k].week, f[k].name,
                                        f[k].quantity, f[k].purchased)] :
              f \in [1..len -> [user : users, week : weeks, name : names,
                                quantity : quantities, purchased : BOOLEAN]] } :
            len \in 0..n }

\* lists of at most n rows of one caller and week, numbered in order; every
\* third row is purchased
groupingInputs(n, names, quantities) ==
    UNION { { [k \in 1..len |-> listRow(k, Caller, getStartOfWeek(today), f[k].name,
                                        f[k].quantity, k % 3 = 0)] :
              f \in [1..len -> [name : names, quantity : quantities]] } :
            len \in 0..n }

\* the plan a caller holds who has generated one on the Sunday of this week
sundayPlanRow ==
    [id |-> 1, user_id |-> Caller, week_start_date |-> getStartOfWeek(today),
     plan_data |-> generateFallbackMealPlan(
                       [diet_type |-> "vegan", total_days |-> 1, meals_per_day |-> 1],
                       getStartOfWeek(today)),
     meals_per_day |-> 1, total_days |-> 1]

AggInit ==
    /\ today = 10
    /\ prefsRow = NoPrefs
    /\ PipelineIdle
    /\ CalendarClosed
    /\ mealPlans = <<>>
    /\ groceryLists = <<>>
    /\ currentMealPlan = NoPlanRow
    /\ defaultTab = 1
    /\ DashIdle
    /\ groceryItems = <<>>
    /\ PageIdle
    /\ createdAt = <<>>
    /\ groceryData \in groupingInputs(MaxItems, {"Tomato", "tomato", "Eggs"},
                                      {"1 unit", "2 cups", "1 cup, chopped", Null})
    /\ selectedDate = now

AggNext == GroupItems

AggSpec == AggInit /\ [][AggNext]_vars

(***************************************************************************)
(* The grocery list of a caller with stored rows: rows of the plan the     *)
(* function wrote (untagged) and rows added from the viewer (tagged)       *)
(***************************************************************************)
GroceryInit ==
    /\ today = 10
    /\ prefsRow = NoPrefs
    /\ reqs = [r \in ReqIds |-> FreeReq]
    /\ cpc = "idle" /\ cReq = 0 /\ loading = FALSE
    /\ toast = NoToast /\ planData = NoView
    /\ CalendarClosed
    /\ ListClosed
    /\ mealPlans = <<sundayPlanRow>>
    /\ createdAt = createdOn(mealPlans)
    /\ PageIdle
    /\ currentMealPlan = NoPlanRow
    /\ defaultTab = 1
    /\ DashIdle
    /\ groceryLists \in listsOf(MaxRows, {Caller, OtherUser},
                                {NoDate, getStartOfWeek(today)},
                                {"Eggs", "Rice"}, {"1 unit"})
    /\ nextGroceryId = Len(groceryLists) + 1
    /\ selectedDate = now

GroceryNext == OpenList \/ TogglePurchased \/ ClearPurchased

GrocerySpec == GroceryInit /\ [][GroceryNext]_vars

(***************************************************************************)
(* The calendar of a caller who holds a generated plan                     *)
(***************************************************************************)
\* the rows generate can have returned on a day for stored preferences
planRowsOf(preferences, date) ==
    { [id |-> 1, user_id |-> Caller, week_start_date |-> weekStartDateOf(date),
       plan_data |-> data, meals_per_day |-> preferences.meals_per_day,
       total_days |-> preferences.total_days] :
      data \in {generateFallbackMealPlan(preferences, date), NoDaysPlan}
                  \cup aiPlans(preferences) }

\* stored meal_times and reminder_tone columns
RemPrefsRows ==
    { [present |-> TRUE, has_meal_times |-> h, meal_times |-> mt, reminder_tone |-> tone] :
        h \in BOOLEAN,
        mt \in {NoMealTimes,
                [breakfast |-> "07:30", lunch |-> Null, dinner |-> "00:30"]},
        tone \in {Null, "gentle", "funny"} }

\* rows of other batches: another user's, and one of the caller's own
storedBefore(date) ==
    << notification(OtherUser, 7, regenerateMessage, timestamp(date - 1, 10, 0)),
       notification(OtherUser, 7, regenerateMessage, timestamp(date + 1, 10, 0)),
       notification(Caller, 0, regenerateMessage, timestamp(date, 12, 0)) >>

usualPrefs == [diet_type |-> "vegan", total_days |-> 2, meals_per_day |-> 4]

\* The day, the plan and the reminder preferences vary one at a time.
ReminderInit ==
    /\ today \in Days
    /\ prefsRow \in PrefsRows
    /\ remPrefs \in RemPrefsRows \cup {NoRemPrefs}
    /\ \/ today = 10 /\ prefsRow = usualPrefs
       \/ today = 10 /\ remPrefs = NoRemPrefs
       \/ prefsRow = usualPrefs /\ remPrefs = NoRemPrefs
    /\ currentMealPlan \in planRowsOf(prefsRow, today) \cup {NoPlanRow}
    /\ mealPlans = IF currentMealPlan = NoPlanRow THEN <<>> ELSE <<currentMealPlan>>
    /\ createdAt = createdOn(mealPlans)
    /\ PageIdle
    /\ notifications \in {<<>>, storedBefore(today)}
    /\ clock = 0
    /\ notifView = <<>>
    /\ batches = 0
    /\ PipelineIdle
    /\ ListClosed
    /\ groceryLists = <<>>
    /\ defaultTab = 1
    /\ DashIdle
    /\ selectedDate = now

ReminderNext ==
    \/ OpenCalendar
    \/ ScheduleReminders
    \/ ClearOldNotifications
    \/ Tick

ReminderSpec == ReminderInit /\ [][ReminderNext]_vars

(***************************************************************************)
(* Regeneration: a caller who holds the plan of this week generates again, *)
(* possibly while an earlier call is still running                         *)
(***************************************************************************)
OverlapIds == 1..MaxOverlap

\* It is a Sunday, so the function tags a new plan with the day the stored
\* plan carries.
RegenInit ==
    /\ today = 7
    /\ prefsRow = [diet_type |-> "vegan", total_days |-> 1, meals_per_day |-> 2]
    /\ reqs = [r \in OverlapIds |-> FreeReq]
    /\ mealPlans = <<sundayPlanRow>>
    /\ createdAt = createdOn(mealPlans)
    /\ groceryLists = storedGroceryRows(
                          extractIngredients(sundayPlanRow.plan_data, Caller, 1).rows, 1)
    /\ nextGroceryId = Len(groceryLists) + 1
    /\ cpc = "idle" /\ cReq = 0 /\ loading = FALSE
    /\ toast = NoToast
    /\ currentMealPlan = sundayPlanRow
    /\ planData = viewOf(sundayPlanRow, today)
    /\ defaultTab = getDay(today) + 1
    /\ DashIdle
    /\ ListClosed
    /\ CalendarClosed
    /\ PageIdle
    /\ selectedDate = now

RegenNext ==
    \/ GenerateClick
    \/ PrefsResult
    \/ Timeout
    \/ InvokeFetchError
    \/ InvokeResult
    \/ ForeignInvoke
    \/ \E r \in OverlapIds : Authenticate(r)
    \/ \E r \in OverlapIds : ParseBody(r)
    \/ \E r \in OverlapIds : BackendResult(r)
    \/ \E r \in OverlapIds : SavePlan(r)
    \/ \E r \in OverlapIds : SaveGroceries(r)

RegenSpec == RegenInit /\ [][RegenNext]_vars

(***************************************************************************)
(* The current-week grocery read of a caller with stored plans, created    *)
(* around the bounds of the current week                                   *)
(***************************************************************************)
\* instants around the week of t: the minute before the local Monday starts,
\* its first minute, a midweek noon, the week's last minute and the next one
planStamps(t, tz) ==
    LET monday == CHOOSE d \in (localDate(t, tz) - 6)..localDate(t, tz) : d % 7 = 1
        start  == monday * MinutesPerDay - tz
    IN  {start - 1, start, start + 2 * MinutesPerDay + 12 * MinutesPerHour,
         start + 7 * MinutesPerDay - 1, start + 7 * MinutesPerDay}

\* a stored plan row: the function tags it with the UTC day it is created on
stampedPlan(id, userId, created) ==
    [id |-> id, user_id |-> userId, week_start_date |-> formatDate(created),
     plan_data |-> NoDaysPlan, meals_per_day |-> 1, total_days |-> 1]

\* one grocery row per plan, tagged with the plan's week as the viewer's
\* "add to grocery list" writes it, and one untagged row of the caller
rowsOfPlans(plans) ==
    [k \in 1..Len(plans) |->
        listRow(k, plans[k].user_id, plans[k].week_start_date,
                IF k % 2 = 1 THEN "Eggs" ELSE "Rice", "1 unit", FALSE)]
      \o << listRow(Len(plans) + 1, Caller, NoDate, "Beans", "1 unit", FALSE) >>

WeekReadInit ==
    /\ today \in {7, 8, 10}
    /\ clock \in {0, 12 * MinutesPerHour}
    /\ timeZone \in TimeZones
    /\ weekResult = NoWeek
    /\ dst = NoDst
    /\ \E len \in 0..MaxPlans :
         \E f \in [1..len -> [user : {Caller, OtherUser},
                              created : planStamps(now, timeZone)]] :
            /\ mealPlans = [k \in 1..len |-> stampedPlan(k, f[k].user, f[k].created)]
            /\ createdAt = [k \in 1..len |-> f[k].created]
    /\ groceryLists = rowsOfPlans(mealPlans)
    /\ nextGroceryId = Len(groceryLists) + 1
    /\ prefsRow = NoPrefs
    /\ reqs = [r \in ReqIds |-> FreeReq]
    /\ cpc = "idle" /\ cReq = 0 /\ loading = FALSE
    /\ toast = NoToast /\ planData = NoView
    /\ ListClosed
    /\ remPrefs = NoRemPrefs /\ notifications = <<>> /\ notifView = <<>> /\ batches = 0
    /\ currentMealPlan = NoPlanRow
    /\ defaultTab = 1
    /\ DashIdle
    /\ selectedDate = now

WeekReadNext == LoadCurrentWeek

WeekReadSpec == WeekReadInit /\ [][WeekReadNext]_vars

(***************************************************************************)
(* The week computations at every hour of a week, in three time zones      *)
(***************************************************************************)
WeekClockTimes == {0, 30, 4 * MinutesPerHour, 12 * MinutesPerHour,
                   20 * MinutesPerHour, MinutesPerDay - 1}

WeekInit ==
    /\ today \in Days
    /\ clock \in WeekClockTimes
    /\ timeZone \in TimeZones
    /\ weekResult = NoWeek
    /\ dst = NoDst
    /\ prefsRow = NoPrefs
    /\ PipelineIdle
    /\ ListClosed
    /\ remPrefs = NoRemPrefs /\ notifications = <<>> /\ notifView = <<>> /\ batches = 0
    /\ mealPlans = <<>>
    /\ createdAt = <<>>
    /\ groceryLists = <<>>
    /\ currentMealPlan = NoPlanRow
    /\ defaultTab = 1
    /\ DashIdle
    /\ selectedDate = now

WeekNext == GetStartOfWeek \/ GetCurrentWeekRange \/ CurrentSunday

WeekSpec == WeekInit /\ [][WeekNext]_vars

(***************************************************************************)
(* Two users share the store: the caller works in the web client while     *)
(* the function is invoked with and without tokens, the caller's or        *)
(* another user's                                                          *)
(***************************************************************************)
AccessIds == {1}

Headers == {"missing", "invalid", "valid", "other"}

accessPrefs == [diet_type |-> "vegan", total_days |-> 1, meals_per_day |-> 1]

\* serve: a POST with preferences in the body
ForeignGenerate ==
    /\ freeSlots # {}
    /\ \E header \in Headers :
         LET r == CHOOSE x \in freeSlots : \A y \in freeSlots : x <= y
         IN  reqs' = [reqs EXCEPT ![r] = newRequest(header, accessPrefs)]
    /\ UNCHANGED <<listVars, calendarVars, pageVars, createdAt, dashVars, selectedDate, today, prefsRow, dbVars, clientVars>>

otherPlanRow == [sundayPlanRow EXCEPT !.id = 2, !.user_id = OtherUser]

AccessInit ==
    /\ today = 10
    /\ prefsRow = NoPrefs
    /\ reqs = [r \in AccessIds |-> FreeReq]
    /\ cpc = "idle" /\ cReq = 0 /\ loading = FALSE
    /\ toast = NoToast /\ planData = NoView
    /\ mealPlans = <<sundayPlanRow, otherPlanRow>>
    /\ createdAt = createdOn(mealPlans)
    /\ currentMealPlan = sundayPlanRow
    /\ defaultTab = 1
    /\ DashIdle
    /\ groceryLists =
         << listRow(1, Caller, getStartOfWeek(today), "Eggs", "1 unit", FALSE),
            listRow(2, OtherUser, getStartOfWeek(today), "Eggs", "1 unit", TRUE) >>
    /\ nextGroceryId = Len(groceryLists) + 1
    /\ ListClosed
    /\ clock = 0
    /\ remPrefs = NoRemPrefs
    /\ notifications = storedBefore(today)
    /\ notifView = <<>>
    /\ batches = 0
    /\ PageIdle
    /\ selectedDate = now

AccessNext ==
    \/ ForeignGenerate
    \/ \E r \in AccessIds : Authenticate(r)
    \/ \E r \in AccessIds : ParseBody(r)
    \/ \E r \in AccessIds : BackendResult(r)
    \/ \E r \in AccessIds : SavePlan(r)
    \/ \E r \in AccessIds : SaveGroceries(r)
    \/ OpenList
    \/ TogglePurchased
    \/ ClearPurchased
    \/ OpenCalendar
    \/ ScheduleReminders
    \/ ClearOldNotifications

AccessSpec == AccessInit /\ [][AccessNext]_vars

(***************************************************************************)
(* The fallback plan as a function of the preferences: the function has    *)
(* parsed a request and calls the backend                                  *)
(***************************************************************************)
FallbackPrefs ==
    [diet_type : {"vegan"}, total_days : (1..MaxDays) \cup {DefaultDays},
     meals_per_day : (1..MaxMeals) \cup {DefaultMeals}]

FallbackInit ==
    /\ today \in Days
    /\ prefsRow = NoPrefs
    /\ \E body \in FallbackPrefs :
         reqs = [r \in AccessIds |->
                    [newRequest("valid", body) EXCEPT !.stage = "parsed", !.user = Caller]]
    /\ cpc = "idle" /\ cReq = 0 /\ loading = FALSE
    /\ toast = NoToast /\ planData = NoView
    /\ mealPlans = <<>>
    /\ createdAt = <<>>
    /\ groceryLists = <<>>
    /\ nextGroceryId = 1
    /\ currentMealPlan = NoPlanRow
    /\ defaultTab = 1
    /\ DashIdle
    /\ ListClosed
    /\ CalendarClosed
    /\ PageIdle
    /\ selectedDate = now

FallbackNext == \E r \in AccessIds : BackendResult(r)

FallbackSpec == FallbackInit /\ [][FallbackNext]_vars

(***************************************************************************)
(* Generation followed by the grocery list: the function serves a request  *)
(* while the list is loaded, by either of its read paths                   *)
(***************************************************************************)
ShopInit ==
    /\ today \in Days
    /\ prefsRow = NoPrefs
    /\ reqs = [r \in AccessIds |-> FreeReq]
    /\ cpc = "idle" /\ cReq = 0 /\ loading = FALSE
    /\ toast = NoToast /\ planData = NoView
    /\ mealPlans = <<>>
    /\ createdAt = <<>>
    /\ groceryLists = <<>>
    /\ nextGroceryId = 1
    /\ currentMealPlan = NoPlanRow
    /\ defaultTab = 1
    /\ DashIdle
    /\ ListClosed
    /\ CalendarClosed
    /\ PageIdle
    /\ selectedDate = now

ShopNext ==
    \/ ForeignGenerate
    \/ \E r \in AccessIds : Authenticate(r)
    \/ \E r \in AccessIds : ParseBody(r)
    \/ \E r \in AccessIds : BackendResult(r)
    \/ \E r \in AccessIds : SavePlan(r)
    \/ \E r \in AccessIds : SaveGroceries(r)
    \/ OpenList
    \/ LoadCurrentWeek

ShopSpec == ShopInit /\ [][ShopNext]_vars

(***************************************************************************)
(* A grocery list whose rows all fold into one displayed item: the same    *)
(* name several times in the caller's current week, nothing purchased yet  *)
(***************************************************************************)
foldedRows(n, quantities) ==
    UNION { { [k \in 1..len |-> listRow(k, Caller, getStartOfWeek(today), "Eggs",
                                        f[k], FALSE)] :
              f \in [1..len -> quantities] } :
            len \in 2..n }

FoldInit ==
    /\ today = 10
    /\ prefsRow = NoPrefs
    /\ reqs = [r \in ReqIds |-> FreeReq]
    /\ cpc = "idle" /\ cReq = 0 /\ loading = FALSE
    /\ toast = NoToast /\ planData = NoView
    /\ CalendarClosed
    /\ ListClosed
    /\ mealPlans = <<sundayPlanRow>>
    /\ createdAt = createdOn(mealPlans)
    /\ PageIdle
    /\ currentMealPlan = NoPlanRow
    /\ defaultTab = 1
    /\ DashIdle
    /\ groceryLists \in foldedRows(MaxRows, {"1 unit", "2 cups"})
    /\ nextGroceryId = Len(groceryLists) + 1
    /\ selectedDate = now

FoldSpec == FoldInit /\ [][GroceryNext]_vars

(***************************************************************************)
(* Web client: Dashboard (the profile check) and the profile form          *)
(***************************************************************************)
Tabs == {"meal-plan", "grocery", "calendar", "profile"}

\* a call of checkUserProfile awaiting its two selects
newCheck(from) ==
    [stage |-> "queried", from |-> from, profile |-> Null, preferences |-> Null]

\* Boolean(x) of a text or null
truthy(x) == x \notin {Null, ""}

\* Boolean(profile?.full_name && preferences?.diet_type)
isProfileComplete(check) == truthy(check.profile) /\ truthy(check.preferences)

\* the catch handler of checkUserProfile does not touch localStorage
flagAfterThrow(flag) == flag

remove(q, k) == [i \in 1..(Len(q) - 1) |-> IF i < k THEN q[i] ELSE q[i + 1]]

\* useEffect of the Dashboard: checkUserProfile() and loadCurrentMealPlan()
\* are started, then the cached flag selects the tab
Mount ==
    /\ ~mounted
    /\ mounted' = TRUE
    /\ checks' = Append(checks, newCheck("effect"))
    /\ activeTab' = IF profileComplete = "true" THEN "meal-plan" ELSE activeTab
    /\ \E q \in plansNewestFirst(Caller) :
         currentMealPlan' = IF q = <<>> THEN NoPlanRow ELSE mealPlans[q[1]]
    /\ UNCHANGED <<fullName, profileComplete, hasProfile>>
    /\ UNCHANGED <<listVars, calendarVars, pageVars, createdAt, selectedDate, today, prefsRow,
                   reqs, dbVars, cpc, cReq, loading, toast, planData, defaultTab>>

\* Promise.all of the two .single() selects settles: each select gives its
\* row's column, or null data when it finds no row or fails; or the await throws
QueriesSettle ==
    /\ \E k \in 1..Len(checks) :
         /\ checks[k].stage = "queried"
         /\ \E threw, profileOk, preferencesOk \in BOOLEAN :
              checks' = [checks EXCEPT ![k] =
                  IF threw
                  THEN [@ EXCEPT !.stage = "threw"]
                  ELSE [@ EXCEPT !.stage = "fetched",
                                 !.profile = IF profileOk THEN fullName ELSE Null,
                                 !.preferences = IF preferencesOk
                                                 THEN prefsRow.diet_type ELSE Null]]
    /\ UNCHANGED <<fullName, profileComplete, hasProfile, activeTab, mounted>>
    /\ UNCHANGED <<listVars, calendarVars, pageVars, createdAt, selectedDate, today, prefsRow,
                   reqs, dbVars, clientVars>>

\* the rest of checkUserProfile: the try block after the await, or the catch
\* handler; handleProfileComplete then shows its toast
CheckReturns ==
    /\ \E k \in 1..Len(checks) :
         /\ checks[k].stage \in {"fetched", "threw"}
         /\ IF checks[k].stage = "fetched"
            THEN /\ hasProfile' = isProfileComplete(checks[k])
                 /\ profileComplete' = IF isProfileComplete(checks[k]) THEN "true" ELSE Null
                 /\ activeTab' = IF isProfileComplete(checks[k]) THEN "meal-plan" ELSE "profile"
            ELSE /\ hasProfile' = FALSE
                 /\ profileComplete' = flagAfterThrow(profileComplete)
                 /\ activeTab' = "profile"
         /\ toast' = IF checks[k].from = "complete"
                     THEN [title |-> "Profile updated!",
                           description |-> "Your profile has been saved successfully."]
                     ELSE toast
         /\ checks' = remove(checks, k)
    /\ UNCHANGED <<fullName, mounted>>
    /\ UNCHANGED <<listVars, calendarVars, pageVars, createdAt, selectedDate, today, prefsRow,
                   reqs, dbVars, cpc, cReq, loading, planData, currentMealPlan, defaultTab>>

\* the diet_preferences row the profile form upserts
formPrefs == [diet_type |-> "vegan", total_days |-> DefaultDays,
              meals_per_day |-> DefaultMeals]

\* handleSubmit of the profile form: the profile update, the preferences
\* upsert, then onComplete = handleProfileComplete, which checks again
SaveProfile ==
    /\ mounted
    /\ Len(checks) < MaxChecks
    /\ \E name \in {"", "Ada"} : \E profileOk, dietOk \in BOOLEAN :
         IF ~profileOk
         THEN /\ toast' = storeError
              /\ UNCHANGED <<fullName, prefsRow, checks>>
         ELSE /\ fullName' = name
              /\ IF ~dietOk
                 THEN /\ toast' = storeError
                      /\ UNCHANGED <<prefsRow, checks>>
                 ELSE /\ prefsRow' = formPrefs
                      /\ toast' = [title |-> "Profile saved!",
                                   description |->
                                     "Your preferences have been updated successfully."]
                      /\ checks' = Append(checks, newCheck("complete"))
    /\ UNCHANGED <<profileComplete, hasProfile, activeTab, mounted>>
    /\ UNCHANGED <<listVars, calendarVars, pageVars, createdAt, selectedDate, today,
                   reqs, dbVars, cpc, cReq, loading, planData, currentMealPlan, defaultTab>>

\* Tabs onValueChange = setActiveTab; the tabs are shown once hasProfile is set
SelectTab ==
    /\ mounted
    /\ hasProfile
    /\ \E tab \in Tabs : activeTab' = tab
    /\ UNCHANGED <<fullName, profileComplete, hasProfile, checks, mounted>>
    /\ UNCHANGED <<listVars, calendarVars, pageVars, createdAt, selectedDate, today, prefsRow,
                   reqs, dbVars, clientVars>>

\* a user who signs in: the stored profile and preferences, and the flag an
\* earlier visit left in localStorage, are inputs
ProfileInit ==
    /\ today = 10
    /\ prefsRow \in {NoPrefs, formPrefs}
    /\ fullName \in {Null, "", "Ada"}
    /\ profileComplete \in {Null, "true"}
    /\ hasProfile = FALSE
    /\ activeTab = "profile"
    /\ checks = <<>>
    /\ mounted = FALSE
    /\ PipelineIdle
    /\ ListClosed
    /\ CalendarClosed
    /\ PageIdle
    /\ mealPlans = <<>>
    /\ createdAt = <<>>
    /\ groceryLists = <<>>
    /\ currentMealPlan = NoPlanRow
    /\ defaultTab = 1
    /\ selectedDate = now

ProfileNext ==
    \/ Mount
    \/ QueriesSettle
    \/ CheckReturns
    \/ SaveProfile
    \/ SelectTab

ProfileSpec == ProfileInit /\ [][ProfileNext]_vars

(***************************************************************************)
(* The calendar's day view next to the scheduler: the caller picks dates   *)
(* and creates reminders within one week                                   *)
(***************************************************************************)
\* getSelectedDateMeals; date is the local day new Date() falls on, and
\* getTime() of the local midnight that starts the week is subtracted from
\* getTime() of the selected Date
getSelectedDateMeals(plan, selected, date) ==
    IF plan = NoPlanRow THEN <<>>
    ELSE LET weekStart == instantOf(timestamp(startOfWeek(date, 1), 0, 0))
             daysDiff  == (selected - weekStart) \div MinutesPerDay
             dayNumber == daysDiff + 1
             found     == SelectSeq(plan.plan_data.days, LAMBDA d : d.day = dayNumber)
         IN  IF found = <<>> THEN <<>> ELSE found[1].meals

\* the days the calendar offers around the current week
CalendarDates == UNION { {d - 7, d, d + 2} : d \in Days }

\* Calendar onSelect: setSelectedDate(date), a local midnight
SelectDate ==
    /\ \E date \in CalendarDates : selectedDate' = instantOf(timestamp(date, 0, 0))
    /\ UNCHANGED <<listVars, calendarVars, pageVars, createdAt, dashVars, today, prefsRow,
                   reqs, dbVars, clientVars>>

\* a plan of the default number of days
weekPrefs == [diet_type |-> "vegan", total_days |-> DefaultDays, meals_per_day |-> 1]

\* no change of the clocks, or one on the Friday of the current week, when
\* the clocks go an hour forward or back
ClockChanges(date) ==
    {NoDst} \cup { [day |-> addDays(startOfWeek(date, 1), 4), shift |-> s] :
                     s \in {MinutesPerHour, 0 - MinutesPerHour} }

ViewInit ==
    /\ today \in Days
    /\ clock \in {0, 12 * MinutesPerHour}
    /\ prefsRow \in {usualPrefs, weekPrefs}
    /\ remPrefs = NoRemPrefs
    /\ currentMealPlan \in planRowsOf(prefsRow, today) \cup {NoPlanRow}
    /\ mealPlans = IF currentMealPlan = NoPlanRow THEN <<>> ELSE <<currentMealPlan>>
    /\ createdAt = createdOn(mealPlans)
    /\ timeZone = 0
    /\ weekResult = NoWeek
    /\ dst \in ClockChanges(today)
    /\ DashIdle
    /\ notifications = <<>>
    /\ notifView = <<>>
    /\ batches = 0
    /\ PipelineIdle
    /\ ListClosed
    /\ groceryLists = <<>>
    /\ defaultTab = 1
    /\ selectedDate = now

ViewNext == SelectDate \/ ScheduleReminders

ViewSpec == ViewInit /\ [][ViewNext]_vars

(***************************************************************************)
(* Properties                                                              *)
(***************************************************************************)
responded(r) == reqs[r].stage = "responded"

succeeded(r) == responded(r) /\ reqs[r].response.success

GenerationFailureToasts ==
    { generationFailed(m) : m \in {TimedOutMsg, HttpErrorMsg, FetchErrorMsg,
                                   "No data returned from the server",
                                   "Unexpected response from the server"} }

PrefsErrorToast == errorToast("Failed to load your preferences. Please try again.")

\* the shape the fallback plan is to have: N days of M meals named "Sample {Type}"
fallbackShaped(data, preferences) ==
    /\ data.hasDays
    /\ Len(data.days) = preferences.total_days
    /\ \A i \in 1..Len(data.days) :
         /\ Len(data.days[i].meals) = preferences.meals_per_day
         /\ \A j \in 1..Len(data.days[i].meals) :
              data.days[i].meals[j].name = "Sample " \o data.days[i].meals[j].type

\* C1: whenever the backend call fails, returns an unparseable body or returns
\* a parsed body without days, the plan generate returns has totalDays days of
\* mealsPerDay meals, each named "Sample {Type}".
C1_FallbackOnEveryBackendFailure ==
    \A r \in ReqIds :
        (succeeded(r) /\ reqs[r].aiOutcome \in BackendFailures \cup {"no_days"})
            => fallbackShaped(reqs[r].response.planData, reqs[r].body)

\* C2: a returned plan has exactly totalDays days, numbered 1..N in order, and
\* day d is dated weekStartDate + (d - 1).
C2_DaysNumberedAndDated ==
    \A r \in ReqIds :
        succeeded(r) =>
            LET data == reqs[r].response.planData
                row  == reqs[r].response.mealPlan
            IN  /\ data.hasDays
                /\ Len(data.days) = reqs[r].body.total_days
                /\ \A d \in 1..Len(data.days) :
                     /\ data.days[d].day = d
                     /\ data.days[d].date = row.week_start_date + (d - 1)

\* C3: every day of a returned plan has exactly mealsPerDay meals.
C3_MealsPerDay ==
    \A r \in ReqIds :
        succeeded(r) =>
            \A d \in 1..Len(reqs[r].response.planData.days) :
                Len(reqs[r].response.planData.days[d].meals)
                    = reqs[r].body.meals_per_day

callFails ==
    /\ cpc = "invoking" /\ cpc' = "idle"
    /\ \/ ~responded(cReq)
       \/ reqs[cReq].response.status >= 400
       \/ ~reqs[cReq].response.success

rowsOfPlan(id) == SelectSeq(groceryLists, LAMBDA g : g.meal_plan_id = id)

\* C7: when the plan insert fails, the response is a failure with status >= 400
\* that carries no plan, no plan row is stored and no grocery row is written.
C7_PlanSaveFailureIsReported ==
    /\ \A r \in ReqIds :
         reqs[r].saveError =>
            /\ responded(r)
            /\ ~reqs[r].response.success
            /\ reqs[r].response.status >= 400
            /\ reqs[r].response.mealPlan = NoPlanRow
            /\ reqs[r].response.planData = NoDaysPlan
            /\ reqs[r].mealPlan = NoPlanRow
            /\ reqs[r].inserted = 0
    /\ Len(mealPlans) = Cardinality({r \in ReqIds : reqs[r].mealPlan # NoPlanRow})
    /\ \A k \in 1..Len(groceryLists) :
         \E r \in ReqIds : /\ ~reqs[r].saveError
                           /\ reqs[r].mealPlan.id = groceryLists[k].meal_plan_id

C7_Witness ==
    \E r \in ReqIds : reqs[r].saveError /\ responded(r) /\ reqs[r].aiCalled

\* C8: when the grocery insert fails after the plan was saved, the plan row
\* stays stored and the response is a success carrying that plan.
C8_GroceryFailureIsSwallowed ==
    \A r \in ReqIds :
        reqs[r].groceryError =>
            /\ responded(r)
            /\ reqs[r].response.success
            /\ reqs[r].response.status < 400
            /\ reqs[r].mealPlan # NoPlanRow
            /\ reqs[r].response.mealPlan = reqs[r].mealPlan
            /\ reqs[r].response.planData = reqs[r].mealPlan.plan_data
            /\ reqs[r].mealPlan.id \in 1..Len(mealPlans)
            /\ mealPlans[reqs[r].mealPlan.id] = reqs[r].mealPlan
            /\ rowsOfPlan(reqs[r].mealPlan.id) = <<>>

C8_Witness ==
    \E r \in ReqIds : reqs[r].groceryError /\ responded(r)
                      /\ Len(reqs[r].ingredients) > 0

\* C9: every stored plan carries the Sunday that starts the current week.
C9_PlanTaggedWithStartOfWeek ==
    \A k \in 1..Len(mealPlans) :
        mealPlans[k].week_start_date = getStartOfWeek(today)

\* the ingredient names of a plan, meal by meal
ingredientNames(data) ==
    concatAll([i \in 1..Len(data.days) |->
        concatAll([j \in 1..Len(data.days[i].meals) |->
            data.days[i].meals[j].ingredients])])

\* C10: the rows written for a plan are one per (meal, ingredient) pair, in
\* order and without deduplication, each with quantity "1 unit", not
\* purchased, and tagged with the plan's weekStartDate.
C10_ExpandWritesTaggedRows ==
    \A r \in ReqIds :
        (succeeded(r) /\ ~reqs[r].groceryError) =>
            LET plan  == reqs[r].mealPlan
                rows  == rowsOfPlan(plan.id)
                names == ingredientNames(plan.plan_data)
            IN  /\ Len(rows) = Len(names)
                /\ \A k \in 1..Len(rows) :
                     /\ rows[k].item_name = names[k]
                     /\ rows[k].quantity = "1 unit"
                     /\ ~rows[k].is_purchased
                     /\ rows[k].week_start_date = plan.week_start_date

\* the rows of a list whose name is key up to case, in order
groupOf(data, key) == SelectSeq(data, LAMBDA g : toLowerCase(g.item_name) = key)

\* the quantity a GroceryItem carries: the text, "1 unit" when none is set
statedQuantity(g) == IF g.quantity = Null THEN "1 unit" ELSE g.quantity

\* the distinct elements of a list, in first-seen order
RECURSIVE distinctInOrder(_)
distinctInOrder(q) ==
    IF q = <<>> THEN <<>>
    ELSE <<Head(q)>> \o SelectSeq(distinctInOrder(Tail(q)), LAMBDA x : x # Head(q))

\* C11: grouping is order-independent: every permutation of the rows gives
\* the same grouped list.
C11_AggregateOrderIndependent ==
    groceryItems # <<>> =>
        \A p \in Permutations(1..Len(groceryData)) :
            aggregate(permute(groceryData, p)) = groceryItems

\* C12: for each group of rows sharing a lowercased name the grouped list
\* holds the first row's id, name, purchased flag and notes, with the distinct
\* quantity texts of the group, in first-seen order, joined by ", ".
C12_GroupRepresentativeAndQuantities ==
    groceryItems # <<>> =>
        \A k \in 1..Len(groceryData) :
            LET grp   == groupOf(groceryData, toLowerCase(groceryData[k].item_name))
                first == grp[1]
            IN  \E i \in 1..Len(groceryItems) :
                    groceryItems[i] =
                        [id |-> first.id, item_name |-> first.item_name,
                         quantity |-> join(distinctInOrder(
                                        [j \in 1..Len(grp) |-> statedQuantity(grp[j])])),
                         is_purchased |-> first.is_purchased, notes |-> first.notes]

shownNames(items) == { toLowerCase(items[i].item_name) : i \in 1..Len(items) }

\* C11 as amended: the grouping itself is order-independent: every permutation
\* of the rows gives a grouped list of the same length with the same
\* lowercased names.
C11_GroupingOrderIndependent ==
    groceryItems # <<>> =>
        \A p \in Permutations(1..Len(groceryData)) :
            LET shuffled == aggregate(permute(groceryData, p))
            IN  /\ Len(shuffled) = Len(groceryItems)
                /\ shownNames(shuffled) = shownNames(groceryItems)

C11_Witness ==
    /\ Len(groceryData) = 3
    /\ Len(groceryItems) = 2
    /\ \E p \in Permutations(1..Len(groceryData)) :
         aggregate(permute(groceryData, p)) # groceryItems

\* C14: a toggle either fails, and then shows an error and changes neither
\* the table nor the view, or it sets the flag on the rows with the item's id
\* (at most one) and on the item of the view, changes no other row or item,
\* and reads nothing from the store.
C14_ToggleUpdatesOneRow ==
    [][ TogglePurchased =>
          \/ /\ toast' = storeError
             /\ groceryLists' = groceryLists
             /\ groceryItems' = groceryItems
          \/ \E k \in 1..Len(groceryItems) : \E value \in BOOLEAN :
               LET itemId == groceryItems[k].id
               IN  /\ toast' = toast
                   /\ Cardinality({i \in 1..Len(groceryLists) :
                                      groceryLists[i].id = itemId}) <= 1
                   /\ Len(groceryLists') = Len(groceryLists)
                   /\ \A i \in 1..Len(groceryLists) :
                        groceryLists'[i] =
                            IF groceryLists[i].id = itemId
                            THEN [groceryLists[i] EXCEPT !.is_purchased = value]
                            ELSE groceryLists[i]
                   /\ Len(groceryItems') = Len(groceryItems)
                   /\ \A i \in 1..Len(groceryItems) :
                        groceryItems'[i] =
                            IF i = k
                            THEN [groceryItems[i] EXCEPT !.is_purchased = value]
                            ELSE groceryItems[i]
                   /\ groceryData' = groceryData ]_vars

\* a row shown as purchased that the last select returned as not purchased,
\* next to another row of the same name that is still not purchased
C14_Witness ==
    \E k \in 1..Len(groceryItems) : \E i, j, d \in 1..Len(groceryLists) :
        /\ groceryItems[k].is_purchased
        /\ groceryLists[i].id = groceryItems[k].id /\ groceryLists[i].is_purchased
        /\ d <= Len(groceryData)
        /\ groceryData[d].id = groceryItems[k].id /\ ~groceryData[d].is_purchased
        /\ j # i
        /\ groceryLists[j].item_name = groceryLists[i].item_name
        /\ groceryLists[j].user_id = Caller
        /\ ~groceryLists[j].is_purchased

\* C15: clearing either fails, and then shows an error and deletes nothing, or
\* it deletes exactly the caller's purchased rows, whatever their week or
\* plan: rows not purchased and rows of other users stay, in order.
C15_ClearDeletesCallersPurchasedRows ==
    [][ ClearPurchased =>
          \/ toast' = storeError /\ groceryLists' = groceryLists
          \/ /\ groceryLists' = SelectSeq(groceryLists,
                    LAMBDA g : g.user_id # Caller \/ ~g.is_purchased)
             /\ toast'.title = "Success" =>
                  \A i \in 1..Len(groceryItems') : ~groceryItems'[i].is_purchased ]_vars

\* a successful clear that deleted a row and left another user's purchased row
C15_Witness ==
    /\ toast.title = "Success"
    /\ nextGroceryId = 3
    /\ Len(groceryLists) = 1
    /\ groceryLists[1].user_id = OtherUser
    /\ groceryLists[1].is_purchased

\* the reminders were created by the last thing the caller did to the table
remindersCreated == toast.title = "Success!" /\ batches > 0

\* the number of (day, meal) pairs of a plan
RECURSIVE pairsUpTo(_, _)
pairsUpTo(days, i) ==
    IF i = 0 THEN 0 ELSE pairsUpTo(days, i - 1) + Len(days[i].meals)

pairsOf(plan) == pairsUpTo(plan.plan_data.days, Len(plan.plan_data.days))

\* the rows the last batch added to the table
lastBatch ==
    LET size == 2 * pairsOf(currentMealPlan) + 1
    IN  SubSeq(notifications, Len(notifications) - size + 1, Len(notifications))

\* the prep and the meal reminder of meal j of day i in the last batch
prepOf(i, j) == lastBatch[2 * (pairsUpTo(currentMealPlan.plan_data.days, i - 1) + j) - 1]
mealOf(i, j) == lastBatch[2 * (pairsUpTo(currentMealPlan.plan_data.days, i - 1) + j)]

\* the time of day stated for a slot: the mapping's, 12:00 for an absent slot
statedTime(mealTimes, slot) ==
    LET t == CASE slot = "breakfast" -> mealTimes.breakfast
               [] slot = "lunch"     -> mealTimes.lunch
               [] slot = "dinner"    -> mealTimes.dinner
               [] OTHER              -> Null
    IN  IF t = Null THEN 12 * MinutesPerHour
        ELSE parseTime(t).hours * MinutesPerHour + parseTime(t).minutes

\* the mappings the scheduler can have resolved from the stored preferences
resolvedMealTimes == { mealTimesOf(res.data) : res \in selectReminderPrefs(remPrefs) }

\* C16: for a plan with no empty meal lists the batch holds exactly
\* 2 * totalDays * mealsPerDay + 1 reminders.
C16_BatchSize ==
    ( /\ remindersCreated
      /\ \A i \in 1..Len(currentMealPlan.plan_data.days) :
            Len(currentMealPlan.plan_data.days[i].meals) > 0 )
    => LET size == 2 * currentMealPlan.total_days * currentMealPlan.meals_per_day + 1
       IN  /\ toast.description = ToString(size) \o " reminders created for your meal plan."
           /\ Cardinality({k \in 1..Len(notifications) :
                              /\ notifications[k].user_id = Caller
                              /\ notifications[k].meal_plan_id = currentMealPlan.id})
                = batches * size

\* C17: for every (day, meal) pair the meal reminder is scheduled on day.date
\* at the time of the meal's slot, 12:00 for an absent slot, and the prep
\* reminder exactly one hour earlier.
C17_RemindersAtDayDate ==
    remindersCreated =>
        \E mealTimes \in resolvedMealTimes :
            \A i \in 1..Len(currentMealPlan.plan_data.days) :
                \A j \in 1..Len(currentMealPlan.plan_data.days[i].meals) :
                    LET day  == currentMealPlan.plan_data.days[i]
                        meal == day.meals[j]
                        at   == day.date * MinutesPerDay
                                  + statedTime(mealTimes, toLowerCase(meal.type))
                    IN  /\ mealOf(i, j).scheduled_time = at
                        /\ prepOf(i, j).scheduled_time = at - MinutesPerHour

\* the Monday that starts the week a day lies in
mondayOf(date) == CHOOSE m \in (date - 6)..date : m % 7 = 1

\* C18: a created batch ends, after the reminders of all days, with exactly
\* one regenerate reminder, scheduled at 10:00 on the last day (Monday + 6)
\* of the Monday-start week the current date lies in.
C18_OneRegenerateReminder ==
    remindersCreated =>
        /\ Len(lastBatch) = 2 * pairsOf(currentMealPlan) + 1
        /\ lastBatch[Len(lastBatch)].message = regenerateMessage
        /\ lastBatch[Len(lastBatch)].user_id = Caller
        /\ lastBatch[Len(lastBatch)].scheduled_time
             = (mondayOf(today) + 6) * MinutesPerDay + 10 * MinutesPerHour
        /\ \A k \in 1..(Len(lastBatch) - 1) : lastBatch[k].message # regenerateMessage

\* created on a Sunday, the regenerate reminder falls on that very day
C18_Witness ==
    /\ remindersCreated
    /\ getDay(today) = 0
    /\ Len(lastBatch) > 1
    /\ lastBatch[Len(lastBatch)].scheduled_time = timestamp(today, 10, 0)

\* the batch stated for missing preferences: every pair's reminders at the
\* default time of its slot (08:00, 12:00, 18:00, otherwise 12:00), in the
\* motivational tone, and the regenerate reminder
defaultsBatch ==
    /\ Len(lastBatch) = 2 * pairsOf(currentMealPlan) + 1
    /\ lastBatch[Len(lastBatch)].message = regenerateMessage
    /\ \A i \in 1..Len(currentMealPlan.plan_data.days) :
         \A j \in 1..Len(currentMealPlan.plan_data.days[i].meals) :
            LET meal == currentMealPlan.plan_data.days[i].meals[j]
                slot == toLowerCase(meal.type)
                time == CASE slot = "breakfast" -> 8 * MinutesPerHour
                          [] slot = "dinner"    -> 18 * MinutesPerHour
                          [] OTHER              -> 12 * MinutesPerHour
            IN  /\ mealOf(i, j).scheduled_time % MinutesPerDay = time
                /\ prepOf(i, j).scheduled_time = mealOf(i, j).scheduled_time - MinutesPerHour
                /\ prepOf(i, j).message = "Fuel your body! Time to prep " \o meal.name
                /\ mealOf(i, j).message =
                     "Your day gets better when you eat well. It's time for "
                        \o meal.name \o "!"

\* C19: a preferences lookup that fails or finds nothing never makes the
\* scheduler fail; without stored preferences a created batch is the full
\* batch with the default times and the default tone.
C19_MissingPreferencesUseDefaults ==
    /\ toast # lookupError
    /\ (remindersCreated /\ ~remPrefs.present) => defaultsBatch

C19_Witness ==
    /\ remindersCreated
    /\ ~remPrefs.present
    /\ pairsOf(currentMealPlan) >= 4
    /\ \E i \in 1..Len(notifView) : notifView[i].meal_plan_id = currentMealPlan.id

\* C20: clearing either fails, and then shows an error and deletes nothing, or
\* it deletes exactly the caller's rows scheduled before now: afterwards no
\* stored row of the caller, and no row a read returns, is scheduled before
\* now, and the caller's later rows and every other user's rows are stored.
C20_ClearPastDeletesCallersPastRows ==
    [][ ClearOldNotifications =>
          \/ toast' = storeError /\ notifications' = notifications
          \/ /\ toast'.title = "Success"
             /\ notifications' = SelectSeq(notifications,
                    LAMBDA n : n.user_id # Caller \/ n.scheduled_time >= now)
             /\ \A k \in 1..Len(notifications') :
                  notifications'[k].user_id = Caller
                     => notifications'[k].scheduled_time >= now
             /\ \/ notifView' = notifView
                \/ /\ \A k \in 1..Len(notifView') :
                        /\ notifView'[k].scheduled_time >= now
                        /\ notifView'[k].user_id = Caller
                        /\ \E i \in 1..Len(notifications') :
                             notifications'[i] = notifView'[k]
                   /\ Len(notifView') = Cardinality({i \in 1..Len(notifications') :
                                            notifications'[i].user_id = Caller}) ]_vars

\* after a clear at noon: the caller's past reminders are gone, the one
\* scheduled at this very minute and another user's past row are stored
C20_Witness ==
    /\ toast.title = "Success"
    /\ batches > 0
    /\ Len(notifications) < 3 + 2 * pairsOf(currentMealPlan) + 1
    /\ \E k \in 1..Len(notifications) :
         notifications[k].user_id = Caller /\ notifications[k].scheduled_time = now
    /\ \E k \in 1..Len(notifications) :
         notifications[k].user_id = OtherUser /\ notifications[k].scheduled_time < now
    /\ \A k \in 1..Len(notifications) :
         notifications[k].user_id = Caller => notifications[k].scheduled_time >= now

\* the day of the week a computation anchors the week on: 0 Sunday, 1 Monday
weekStartDayOf(of) == IF of = "getCurrentWeekRange" THEN 1 ELSE 0

\* C21: every week computation returns a date D at (local) midnight that
\* falls on its week start day, with D <= reference date < D + 7 days.
C21_StartOfWeek ==
    /\ weekResult.of \in {"getStartOfWeek", "getCurrentWeekRange"} =>
         /\ localTime(weekResult.start, timeZone) % MinutesPerDay = 0
         /\ getDayLocal(weekResult.start, timeZone) = weekStartDayOf(weekResult.of)
         /\ weekResult.start <= now
         /\ now < weekResult.start + 7 * MinutesPerDay
    /\ weekResult.of = "loadGroceryItems" =>
         /\ getDay(weekResult.date) = weekStartDayOf(weekResult.of)
         /\ weekResult.date <= localDate(now, timeZone)
         /\ localDate(now, timeZone) < weekResult.date + 7

\* the instant the current week starts: local midnight of the Monday on or
\* before now
currentWeekStart ==
    CHOOSE m \in { d * MinutesPerDay - timeZone : d \in (today - 8)..(today + 1) } :
        /\ getDayLocal(m, timeZone) = 1
        /\ m <= now
        /\ now < m + 7 * MinutesPerDay

\* the caller's plans created in the current week
plansOfThisWeek ==
    { i \in 1..Len(mealPlans) :
        /\ mealPlans[i].user_id = Caller
        /\ currentWeekStart <= createdAt[i]
        /\ createdAt[i] < currentWeekStart + 7 * MinutesPerDay }

\* C22: the current-week grocery read shows the rows of the most recently
\* created plan of the caller whose created_at lies in the current week; when
\* the caller has no such plan the list is empty and no error is shown.  (A
\* read the store rejects shows an error and leaves the list as it was.)
C22_CurrentWeekRead ==
    [][ LoadCurrentWeek =>
          \/ toast' = storeError /\ UNCHANGED listVars
          \/ /\ plansOfThisWeek = {}
             /\ groceryItems' = <<>>
             /\ toast' = toast
          \/ /\ toast' = toast
             /\ \E i \in plansOfThisWeek :
                  /\ \A j \in plansOfThisWeek : createdAt[j] <= createdAt[i]
                  /\ groceryItems' \in
                       { aggregate(data) :
                           data \in selectGroceries(groceryLists, Caller,
                                                    mealPlans[i].week_start_date) } ]_vars

\* two plans of the caller lie in the week, the older one created in its
\* very first minute, and the list shows the row of the newer one
C22_Witness ==
    /\ Len(mealPlans) = 2
    /\ plansOfThisWeek = {1, 2}
    /\ createdAt[1] = currentWeekStart
    /\ createdAt[2] > createdAt[1]
    /\ mealPlans[1].week_start_date # mealPlans[2].week_start_date
    /\ Len(groceryItems) = 1
    /\ groceryItems[1].item_name = "Rice"

\* the plans stored are numbered apart, and every successful generation has
\* its own stored row, the one its response carries
onePlanPerGeneration ==
    /\ \A i, j \in 1..Len(mealPlans) : i # j => mealPlans[i].id # mealPlans[j].id
    /\ \A r \in DOMAIN reqs :
         succeeded(r) =>
            Cardinality({i \in 1..Len(mealPlans) :
                            mealPlans[i] = reqs[r].response.mealPlan}) = 1
    /\ \A r1, r2 \in DOMAIN reqs :
         (r1 # r2 /\ succeeded(r1) /\ succeeded(r2))
            => reqs[r1].response.mealPlan.id # reqs[r2].response.mealPlan.id

\* C23: a plan is immutable once created: no step changes or removes a
\* stored plan row, a step adds at most one row, with an id no stored row
\* has, and every successful generation has added exactly one row.
C23_PlansAreImmutable ==
    [][ /\ Len(mealPlans') >= Len(mealPlans)
        /\ Len(mealPlans') <= Len(mealPlans) + 1
        /\ \A i \in 1..Len(mealPlans) : mealPlans'[i] = mealPlans[i]
        /\ Len(mealPlans') = Len(mealPlans) + 1 =>
             \A i \in 1..Len(mealPlans) :
                 mealPlans[i].id # mealPlans'[Len(mealPlans')].id
        /\ onePlanPerGeneration' ]_vars

\* a plan was generated again in the week of the stored one: both rows are
\* stored and the caller holds the new one
C23_Witness ==
    /\ Len(mealPlans) >= 2
    /\ mealPlans[1] = sundayPlanRow
    /\ mealPlans[2].user_id = mealPlans[1].user_id
    /\ mealPlans[2].week_start_date = mealPlans[1].week_start_date
    /\ \E r \in DOMAIN reqs : succeeded(r) /\ reqs[r].response.mealPlan = mealPlans[2]
    /\ currentMealPlan = mealPlans[2]

\* the item names of the grocery rows stored for a plan, in the order stored
storedNames(id) == [k \in 1..Len(rowsOfPlan(id)) |-> rowsOfPlan(id)[k].item_name]

\* C26: generations of one user that overlap are not coordinated: every
\* request that saved a plan has its own plan row, stored as saved, every
\* request whose grocery insert went through has its own rows, one per
\* ingredient and tagged with its plan, and the rows stored before are kept.
C26_OverlappingGenerationsKeepTheirRows ==
    /\ \A r \in DOMAIN reqs :
         reqs[r].mealPlan # NoPlanRow =>
            /\ reqs[r].mealPlan.id \in 1..Len(mealPlans)
            /\ mealPlans[reqs[r].mealPlan.id] = reqs[r].mealPlan
            /\ reqs[r].mealPlan.user_id = reqs[r].user
    /\ \A r1, r2 \in DOMAIN reqs :
         (r1 # r2 /\ reqs[r1].mealPlan # NoPlanRow /\ reqs[r2].mealPlan # NoPlanRow)
            => reqs[r1].mealPlan.id # reqs[r2].mealPlan.id
    /\ \A r \in DOMAIN reqs :
         reqs[r].inserted > 0 =>
            storedNames(reqs[r].mealPlan.id)
               = [k \in 1..Len(reqs[r].ingredients) |-> reqs[r].ingredients[k].item_name]
    /\ mealPlans[1] = sundayPlanRow
    /\ storedNames(1) = ingredientNames(sundayPlanRow.plan_data)

\* two generations of the caller ran interleaved and both succeeded: the
\* first saved its plan first and its grocery rows last
C26_Witness ==
    \E r1, r2 \in DOMAIN reqs :
        /\ succeeded(r1) /\ succeeded(r2)
        /\ reqs[r1].user = Caller /\ reqs[r2].user = Caller
        /\ reqs[r1].inserted > 0 /\ reqs[r2].inserted > 0
        /\ reqs[r1].mealPlan.id < reqs[r2].mealPlan.id
        /\ rowsOfPlan(reqs[r2].mealPlan.id)[1].id < rowsOfPlan(reqs[r1].mealPlan.id)[1].id
        /\ reqs[r1].mealPlan.week_start_date = reqs[r2].mealPlan.week_start_date

ownedBy(rows, userId) == SelectSeq(rows, LAMBDA row : row.user_id = userId)

\* the step changes a stored row of the user, or adds or removes one
writtenFor(userId) ==
    \/ ownedBy(mealPlans', userId) # ownedBy(mealPlans, userId)
    \/ ownedBy(groceryLists', userId) # ownedBy(groceryLists, userId)
    \/ ownedBy(notifications', userId) # ownedBy(notifications, userId)

\* the step is a step of a request the function authenticated as the user
servedFor(userId) ==
    \E r \in DOMAIN reqs :
        /\ reqs'[r] # reqs[r]
        /\ reqs[r].stage \in {"generated", "saved"}
        /\ reqs[r].authHeader \in {"valid", "other"}
        /\ getUser(reqs[r].authHeader) = userId
        /\ reqs[r].user = userId

\* what the client shows was read from the caller's rows
callerViews ==
    /\ \A k \in 1..Len(groceryData) : groceryData[k].user_id = Caller
    /\ \A k \in 1..Len(groceryItems) :
         \A g \in 1..Len(groceryLists) :
            groceryLists[g].id = groceryItems[k].id => groceryLists[g].user_id = Caller
    /\ \A k \in 1..Len(notifView) : notifView[k].user_id = Caller
    /\ currentMealPlan.user_id = Caller

\* C24: no operation reads, creates, updates or deletes a row of a user
\* other than the authenticated caller. The rows a user owns change only in
\* a step of the web client, for the signed-in caller, or in a step of a
\* request the function authenticated with that user's token; a request
\* without a valid token writes nothing; the client's views hold rows of
\* the caller only.
C24_RowsOnlyForTheirOwner ==
    /\ [][\A userId \in {Caller, OtherUser, Null} :
            writtenFor(userId) =>
                \/ userId = Caller /\ reqs' = reqs
                \/ servedFor(userId)]_vars
    /\ [][\A r \in DOMAIN reqs :
            (reqs[r].authHeader \in {"missing", "invalid"} /\ reqs'[r] # reqs[r])
               => UNCHANGED <<mealPlans, groceryLists, notifications>>]_vars
    /\ []callerViews

\* the function served a request made with the other user's token and wrote
\* that user's plan and grocery rows, while the caller toggled an item of
\* the list and holds scheduled reminders
C24_Witness ==
    /\ \E r \in DOMAIN reqs :
         /\ reqs[r].authHeader = "other"
         /\ succeeded(r)
         /\ reqs[r].inserted > 0
         /\ reqs[r].mealPlan.user_id = OtherUser
    /\ Len(ownedBy(groceryLists, OtherUser)) > 1
    /\ groceryItems # <<>>
    /\ \E g \in 1..Len(groceryLists) :
         groceryLists[g].id = 1 /\ groceryLists[g].is_purchased
    /\ batches > 0
    /\ Len(ownedBy(notifications, OtherUser)) = 2

\* the meal type of position j (0-based) in the cycle of four
cycledType(j) ==
    CASE j % 4 = 0 -> "Breakfast"
      [] j % 4 = 1 -> "Lunch"
      [] j % 4 = 2 -> "Dinner"
      [] j % 4 = 3 -> "Snack"

fellBack(r) == reqs[r].stage = "generated" /\ reqs[r].aiOutcome \in BackendFailures

\* C25: in the fallback plan meal j (0-based) of every day has the type
\* [Breakfast, Lunch, Dinner, Snack][j mod 4], the name "Sample " followed by
\* that type and exactly 2 placeholder ingredients; with 3 meals per day and
\* 7 days each of the 7 days has Breakfast, Lunch, Dinner in that order.
C25_FallbackMealTypesCycle ==
    \A r \in DOMAIN reqs :
        fellBack(r) =>
            LET days == reqs[r].planData.days
            IN  /\ \A i \in 1..Len(days) : \A j \in 1..Len(days[i].meals) :
                     LET meal == days[i].meals[j]
                     IN  /\ meal.type = cycledType(j - 1)
                         /\ meal.name = "Sample " \o cycledType(j - 1)
                         /\ Len(meal.ingredients) = 2
                         /\ \A k \in 1..2 :
                              meal.ingredients[k] = "Sample ingredient " \o ToString(k)
                /\ (reqs[r].body.meals_per_day = 3 /\ reqs[r].body.total_days = 7) =>
                     /\ Len(days) = 7
                     /\ \A i \in 1..7 :
                          [j \in 1..Len(days[i].meals) |-> days[i].meals[j].type]
                             = <<"Breakfast", "Lunch", "Dinner">>

\* the backend failed for a request of 7 days with 3 meals a day
C25_Witness ==
    \E r \in DOMAIN reqs :
        /\ fellBack(r)
        /\ reqs[r].planData.hasDays
        /\ reqs[r].body.total_days = 7
        /\ reqs[r].body.meals_per_day = 3
        /\ Len(reqs[r].planData.days) = 7

\* the lists loadGroceryItems can show in this state
listLoads ==
    { aggregate(data) :
        data \in selectGroceries(groceryLists, Caller, getStartOfWeek(today)) }

\* the lists loadCurrentWeekGroceryItems can show in this state
weekLoads ==
    UNION { LET thisWeekPlan == findThisWeekPlan(q, getCurrentWeekRange(now, timeZone))
            IN  IF thisWeekPlan = 0 THEN {<<>>}
                ELSE { aggregate(data) :
                         data \in selectGroceries(groceryLists, Caller,
                                      mealPlans[thisWeekPlan].week_start_date) }
            : q \in plansNewestFirst(Caller) }

\* C27: after a successful generate for the caller, a grocery-list load made
\* in the same week, before any toggle or clear, shows an item for every
\* distinct ingredient name of the new plan: the rows the function wrote are
\* matched by the filter of the read path.
C27_GeneratedIngredientsAreListed ==
    \A r \in DOMAIN reqs :
        (succeeded(r) /\ reqs[r].user = Caller /\ ~reqs[r].groceryError) =>
            \A items \in listLoads \cup weekLoads :
                \A k \in 1..Len(ingredientNames(reqs[r].mealPlan.plan_data)) :
                    toLowerCase(ingredientNames(reqs[r].mealPlan.plan_data)[k])
                        \in shownNames(items)

\* the stored rows a displayed item folds: the caller's rows of the week on
\* display with the item's name up to case
foldedBy(rows, item) ==
    SelectSeq(rows, LAMBDA g : /\ g.user_id = Caller
                               /\ g.week_start_date = getStartOfWeek(today)
                               /\ toLowerCase(g.item_name) = toLowerCase(item.item_name))

idsOf(rows) == { rows[k].id : k \in 1..Len(rows) }

\* the item is shown purchased, folds more than one stored row, and its
\* representative row is stored as purchased
purchasedFold(item) ==
    /\ item.is_purchased
    /\ Len(foldedBy(groceryLists, item)) > 1
    /\ \E k \in 1..Len(groceryLists) :
         groceryLists[k].id = item.id /\ groceryLists[k].is_purchased

\* a step of clearPurchased that deleted rows and reloaded the list
clearedAndReloaded ==
    /\ Len(groceryLists') < Len(groceryLists)
    /\ toast' = [title |-> "Success", description |-> "Purchased items cleared."]

\* a step of togglePurchased that reached the store: exactly the row of the
\* item's id changes, and only its purchased mark
toggleMarksOneRow ==
    (Len(groceryLists') = Len(groceryLists) /\ groceryLists' # groceryLists) =>
        \E k \in 1..Len(groceryLists) :
            /\ groceryLists[k].id \in idsOf(groceryItems)
            /\ groceryLists' = [groceryLists EXCEPT
                                  ![k].is_purchased = ~groceryLists[k].is_purchased]

\* C28 as stated: when a displayed item folds k > 1 stored rows,
\* togglePurchased(true) marks only the representative row, a following
\* clearPurchased deletes just that one row, and after the reload the same
\* name is listed again, built from the remaining k - 1 rows.
C28_ClearDeletesOnlyTheRepresentative ==
    [][/\ toggleMarksOneRow
       /\ clearedAndReloaded =>
            \A i \in 1..Len(groceryItems) :
                purchasedFold(groceryItems[i]) =>
                    /\ idsOf(foldedBy(groceryLists', groceryItems[i]))
                          = idsOf(foldedBy(groceryLists, groceryItems[i]))
                               \ {groceryItems[i].id}
                    /\ toLowerCase(groceryItems[i].item_name)
                          \in shownNames(groceryItems')]_vars

\* C28 as amended: togglePurchased(true) marks only the representative row;
\* a following clearPurchased deletes it together with every other
\* purchased row of the caller, so exactly the folded rows that were not
\* purchased remain; after the reload the name is listed again exactly when
\* such a row remains, as one item that is not purchased and carries the id
\* of a remaining row.
C28_ClearKeepsUnpurchasedFoldedRows ==
    [][/\ toggleMarksOneRow
       /\ clearedAndReloaded =>
            /\ groceryLists' = SelectSeq(groceryLists,
                                   LAMBDA g : ~(g.user_id = Caller /\ g.is_purchased))
            /\ \A i \in 1..Len(groceryItems) :
                 purchasedFold(groceryItems[i]) =>
                    LET before == foldedBy(groceryLists, groceryItems[i])
                        left   == foldedBy(groceryLists', groceryItems[i])
                        shown  == SelectSeq(groceryItems',
                                     LAMBDA it : toLowerCase(it.item_name)
                                         = toLowerCase(groceryItems[i].item_name))
                    IN  /\ left = SelectSeq(before, LAMBDA g : ~g.is_purchased)
                        /\ groceryItems[i].id \notin idsOf(left)
                        /\ Len(shown) = (IF left = <<>> THEN 0 ELSE 1)
                        /\ \A k \in 1..Len(shown) :
                             /\ ~shown[k].is_purchased
                             /\ shown[k].id \in idsOf(left)]_vars

\* every stored row of the list had the one name and none was purchased; the
\* item was marked, the purchased rows were cleared, and the name is listed
\* again from a row that was folded into it
C28_Witness ==
    /\ toast = [title |-> "Success", description |-> "Purchased items cleared."]
    /\ Len(groceryLists) < nextGroceryId - 1
    /\ Len(groceryLists) > 0
    /\ Len(groceryItems) = 1
    /\ ~groceryItems[1].is_purchased
    /\ groceryItems[1].id \in idsOf(groceryLists)

\* the step in which a call of checkUserProfile completes, and that call
completedCheck(k) ==
    /\ k \in 1..Len(checks)
    /\ checks[k].stage \in {"fetched", "threw"}
    /\ checks' = remove(checks, k)

\* the completeness the call computed; the catch handler treats the profile
\* as incomplete
computedComplete(check) == check.stage = "fetched" /\ isProfileComplete(check)

\* C29: whenever checkUserProfile has completed, the cached flag and the view
\* agree with the computed completeness, on the normal and on the error
\* path: localStorage 'profileComplete' is 'true' iff hasProfile is true iff
\* the profile has a full_name and the preferences have a diet_type, and the
\* active tab is 'meal-plan' when complete and 'profile' otherwise, whatever
\* tab the stale flag selected before.
C29_FlagAndViewAgreeAfterCheck ==
    [][\A k \in 1..Len(checks) :
          completedCheck(k) =>
              /\ (profileComplete' = "true") = hasProfile'
              /\ hasProfile' = computedComplete(checks[k])
              /\ activeTab' = IF computedComplete(checks[k])
                              THEN "meal-plan" ELSE "profile"]_vars

\* the meals the calendar shows for the selected date
shownMeals == getSelectedDateMeals(currentMealPlan, selectedDate, today)

\* the date on which the view and the scheduler are to place plan day d
dateOfDay(d) == mondayOf(today) + (d - 1)

\* the local dates the selected Date can stand for: a date picked in the
\* calendar, or the current day as long as nothing was picked
selectedDays ==
    { date \in CalendarDates : selectedDate = instantOf(timestamp(date, 0, 0)) }
      \cup (IF selectedDate = now THEN {today} ELSE {})

\* C30: the calendar view and the reminder scheduler map plan days to dates
\* identically: the date on which getSelectedDateMeals shows the meals of
\* day d is the date on which generateWeeklyReminders schedules the meal
\* reminders of day d, Monday of the current week + (d - 1) days, and a date
\* that is no day of the plan shows no meals.
C30_ViewAndSchedulerAgree ==
    LET days == currentMealPlan.plan_data.days
    IN  /\ \A date \in selectedDays :
             /\ \A i \in 1..Len(days) :
                  date = dateOfDay(days[i].day) => shownMeals = days[i].meals
             /\ (\A i \in 1..Len(days) : date # dateOfDay(days[i].day))
                  => shownMeals = <<>>
        /\ remindersCreated =>
             \A i \in 1..Len(days) : \A j \in 1..Len(days[i].meals) :
                 wallOf(mealOf(i, j).scheduled_time) \div MinutesPerDay
                    = dateOfDay(days[i].day)

====
